---- MODULE Spec2Model ----
(***************************************************************************)
(* Behavioural model of the runnable teaching snippets of the repository:  *)
(* the promise / async examples of Javascript/es6_demo.js and              *)
(* Javascript/ES6.md, the iterator, generator, string and DataProcessor    *)
(* examples of ES6.md, the async examples of the TypeScript guide, the     *)
(* Developer class of the OOP guide and of oop.ts, and the heroes page of  *)
(* unnamed/part_002.                                                       *)
(*                                                                         *)
(* The snippets are independent programs.  `script` names the one that is  *)
(* being run; every behaviour runs exactly one of them from its first      *)
(* statement.  Timers, promise reactions and calls made by the caller are  *)
(* the actions.  `console` is the output of console.log / console.error.   *)
(***************************************************************************)
EXTENDS Integers, Sequences, FiniteSets, TLC

VARIABLES
    script,         \* the snippet being run
    console,        \* console output, oldest first
    \* ---- es6_demo.js: fetchUser, its demonstrated call, getUser
    fuPc,           \* "idle" | "timer" (setTimeout armed) | "settled"
    fuArg,          \* the argument fetchUser was called with
    fuUserId,       \* fetchUser's parameter user_id (a mutable local)
    fuPromise,      \* the promise fetchUser returned
    fuHandler,      \* handler of the demonstrated chain that ran
    guPc,           \* getUser: "idle" | "await" | "done"
    guPromise,      \* the promise getUser returned
    \* ---- Developer (OOP guide and oop.ts)
    devVersion,     \* "none" | "guide" | "oop"
    caffeineLevel,  \* Developer.caffeineLevel / caffeineLevels
    devTrace,       \* the calls made on the developer, with the branch taken
    \* ---- ES6.md: riskyOperation / attemptOperation
    aoRandom,       \* the value Math.random() gave each riskyOperation call
    aoRisky,        \* the promise each riskyOperation call returned
    aoFirst,        \* riskyOperation().catch(retry)
    aoResult,       \* the promise attemptOperation returns
    aoFinal,        \* whether the 'Final result:' handler has run
    \* ---- ES6.md: the step1 / step2 / step3 chain
    scStep,         \* the promise of each step ("idle" before the call)
    scArg,          \* previousResult of each step
    scChain,        \* the promises of .then .then .then .catch
    scCatchRan,     \* whether the catch handler's body has run
    \* ---- TypeScript guide: getUser / safeGetUser
    sgPc,           \* "idle" | "fetch" | "json" | "settled" | "done"
    sgId,           \* the id safeGetUser was called with
    sgGetUser,      \* the promise getUser(id) returned
    sgResult,       \* the promise safeGetUser(id) returned
    \* ---- ES6.md: createRangeIterator
    riPc,           \* "none" | "made"
    riStart,        \* the arguments of createRangeIterator
    riEnd,
    riCurrent,      \* the closure variable current
    riResults,      \* what the next() calls returned, oldest first
    \* ---- ES6.md: the iterable range object
    range,          \* the object: start and end
    iterators,      \* the iterators range[Symbol.iterator]() has returned
    \* ---- ES6.md: twoWayGenerator
    genPc,          \* "none" | "start" | "yield1" | "yield2" | "done"
    genArgs,        \* the arguments of the next() calls, oldest first
    genResults,     \* what the next() calls returned
    \* ---- ES6.md: Circle
    circlePc,       \* "none" | "made"
    circleRadius,   \* Circle._radius
    circleLast,     \* the last operation on the circle and its outcome
    \* ---- ES6.md: hasAnyKeyword / hasAllKeywords
    kwPc,           \* "idle" | "done"
    kwText,         \* the arguments of the two calls
    kwKeywords,
    kwAny,          \* what hasAnyKeyword returned
    kwAll,          \* what hasAllKeywords returned
    \* ---- ES6.md: delay
    dlPc,           \* "idle" | "waiting" | "resumed"
    dlNow,          \* the clock, Date.now()
    dlMs,           \* the argument of delay
    dlStart,        \* const start
    dlDue,          \* when the timer is due
    dlPromise,      \* the promise delay returned
    dlElapsed,      \* const elapsed
    \* ---- ES6.md: DataProcessor
    dpCache,        \* this.cache: key -> data, or NoEntry
    dpCalls,        \* the fetchData calls made, in the order they started
    dpWrites,       \* the calls that wrote the cache, in the order they did
    puPc,           \* processUsers: "idle" | "waiting" | "done"
    puIds,          \* its argument userIds
    puResult,       \* the promise it returned
    \* ---- ES6.md: paginateData / loadAllData
    pgPc,           \* "idle" | "fetching" | "yielded" | "done" | "failed"
    pgTotal,        \* the number of items the source holds
    pageSize,       \* paginateData's parameter
    page,           \* let page
    hasMore,        \* let hasMore
    pgItems,        \* data.items, the array yield* is going through
    pgNext,         \* the position in it of the item last yielded
    allData,        \* const allData of loadAllData
    loadResult,     \* the promise loadAllData returned
    \* ---- part_002: the heroes page
    selectedCharacter, \* let selectedCharacter
    gameMessage,    \* textContent of #gameMessage
    resultMessage,  \* textContent of #resultMessage
    guessInput,     \* value of #guessInput
    pageLast,       \* the last event of the game, with what its handler found
    \* ---- part_002: the heroes page, the other widgets
    heroContainer,  \* what #heroContainer shows: nothing yet, or a hero
    slideIndex,     \* let slideIndex
    animeImage,     \* src of #animeImage
    \* ---- part_002: the ninja form
    formName,       \* value of #name
    formEmail,      \* value of #email
    formPassword,   \* value of #password
    formFeedback,   \* innerText of #formFeedback
    formLast,       \* the last event of the form
    \* ---- part_002: showTab
    activeClass,    \* the ids of the elements whose classList has 'active'
    tabLast,        \* the last showTab call
    \* ---- advanced_ts.md / part_001: DataStorage
    dsData,         \* this.data
    dsHeld,         \* the array the caller holds from getItems, if any
    dsLast,         \* the last call, with this.data as it was before
    \* ---- oop.ts / OOP guide: GitRepository
    secretToken,    \* this.secretToken
    commits,        \* this.commits
    pushCalls,      \* push calls made so far
    \* ---- ES6.md: usage example of processUsers
    activeUsers,    \* activeUsers of the then-handler
    inactiveUsers   \* inactiveUsers of the then-handler

fuVars  == << fuPc, fuArg, fuUserId, fuPromise, fuHandler, guPc, guPromise >>
devVars == << devVersion, caffeineLevel, devTrace >>
aoVars  == << aoRandom, aoRisky, aoFirst, aoResult, aoFinal >>
scVars  == << scStep, scArg, scChain, scCatchRan >>
sgVars  == << sgPc, sgId, sgGetUser, sgResult >>
riVars  == << riPc, riStart, riEnd, riCurrent, riResults >>
itVars  == << range, iterators >>
genVars == << genPc, genArgs, genResults >>
ciVars  == << circlePc, circleRadius, circleLast >>
kwVars  == << kwPc, kwText, kwKeywords, kwAny, kwAll >>
dlVars  == << dlPc, dlNow, dlMs, dlStart, dlDue, dlPromise, dlElapsed >>
dpVars  == << dpCache, dpCalls, dpWrites, puPc, puIds, puResult >>
pgVars  == << pgPc, pgTotal, pageSize, page, hasMore, pgItems, pgNext, allData, loadResult >>
pageVars == << selectedCharacter, gameMessage, resultMessage, guessInput, pageLast >>
showVars == << heroContainer, slideIndex, animeImage >>
formVars == << formName, formEmail, formPassword, formFeedback, formLast >>
tabVars == << activeClass, tabLast >>
dsVars  == << dsData, dsHeld, dsLast >>
gitVars == << secretToken, commits, pushCalls >>
useVars == << activeUsers, inactiveUsers >>

vars == << script, console, fuVars, devVars, aoVars, scVars, sgVars, riVars,
           itVars, genVars, ciVars, kwVars, dlVars, dpVars, pgVars, pageVars, showVars, formVars, tabVars, dsVars, gitVars, useVars >>

\* what a step of one snippet leaves alone
notFu  == << devVars, aoVars, scVars, sgVars, riVars, itVars, genVars, ciVars, kwVars, dlVars, dpVars, pgVars, pageVars, showVars, formVars, tabVars, dsVars, gitVars, useVars >>
notDev == << fuVars, aoVars, scVars, sgVars, riVars, itVars, genVars, ciVars, kwVars, dlVars, dpVars, pgVars, pageVars, showVars, formVars, tabVars, dsVars, gitVars, useVars >>
notAo  == << fuVars, devVars, scVars, sgVars, riVars, itVars, genVars, ciVars, kwVars, dlVars, dpVars, pgVars, pageVars, showVars, formVars, tabVars, dsVars, gitVars, useVars >>
notSc  == << fuVars, devVars, aoVars, sgVars, riVars, itVars, genVars, ciVars, kwVars, dlVars, dpVars, pgVars, pageVars, showVars, formVars, tabVars, dsVars, gitVars, useVars >>
notSg  == << fuVars, devVars, aoVars, scVars, riVars, itVars, genVars, ciVars, kwVars, dlVars, dpVars, pgVars, pageVars, showVars, formVars, tabVars, dsVars, gitVars, useVars >>
notRi  == << fuVars, devVars, aoVars, scVars, sgVars, itVars, genVars, ciVars, kwVars, dlVars, dpVars, pgVars, pageVars, showVars, formVars, tabVars, dsVars, gitVars, useVars >>
notIt  == << fuVars, devVars, aoVars, scVars, sgVars, riVars, genVars, ciVars, kwVars, dlVars, dpVars, pgVars, pageVars, showVars, formVars, tabVars, dsVars, gitVars, useVars >>
notGen == << fuVars, devVars, aoVars, scVars, sgVars, riVars, itVars, ciVars, kwVars, dlVars, dpVars, pgVars, pageVars, showVars, formVars, tabVars, dsVars, gitVars, useVars >>
notCi  == << fuVars, devVars, aoVars, scVars, sgVars, riVars, itVars, genVars, kwVars, dlVars, dpVars, pgVars, pageVars, showVars, formVars, tabVars, dsVars, gitVars, useVars >>
notKw  == << fuVars, devVars, aoVars, scVars, sgVars, riVars, itVars, genVars, ciVars, dlVars, dpVars, pgVars, pageVars, showVars, formVars, tabVars, dsVars, gitVars, useVars >>
notDl  == << fuVars, devVars, aoVars, scVars, sgVars, riVars, itVars, genVars, ciVars, kwVars, dpVars, pgVars, pageVars, showVars, formVars, tabVars, dsVars, gitVars, useVars >>
notDp  == << fuVars, devVars, aoVars, scVars, sgVars, riVars, itVars, genVars, ciVars, kwVars, dlVars, pgVars, pageVars, showVars, formVars, tabVars, dsVars, gitVars, useVars >>
notPg  == << fuVars, devVars, aoVars, scVars, sgVars, riVars, itVars, genVars, ciVars, kwVars, dlVars, dpVars, pageVars, showVars, formVars, tabVars, dsVars, gitVars, useVars >>
notDpPg == << fuVars, devVars, aoVars, scVars, sgVars, riVars, itVars, genVars, ciVars, kwVars, dlVars, pageVars, showVars, formVars, tabVars, dsVars, gitVars, useVars >>
notPage == << fuVars, devVars, aoVars, scVars, sgVars, riVars, itVars, genVars, ciVars, kwVars, dlVars, dpVars, pgVars, showVars, formVars, tabVars, dsVars, gitVars, useVars >>
notShow == << fuVars, devVars, aoVars, scVars, sgVars, riVars, itVars, genVars, ciVars, kwVars, dlVars, dpVars, pgVars, pageVars, formVars, tabVars, dsVars, gitVars, useVars >>
notShowPage == << fuVars, devVars, aoVars, scVars, sgVars, riVars, itVars, genVars, ciVars, kwVars, dlVars, dpVars, pgVars, formVars, tabVars, dsVars, gitVars, useVars >>
notForm == << fuVars, devVars, aoVars, scVars, sgVars, riVars, itVars, genVars, ciVars, kwVars, dlVars, dpVars, pgVars, pageVars, showVars, tabVars, dsVars, gitVars, useVars >>
notTab == << fuVars, devVars, aoVars, scVars, sgVars, riVars, itVars, genVars, ciVars, kwVars, dlVars, dpVars, pgVars, pageVars, showVars, formVars, dsVars, gitVars, useVars >>
notDs  == << fuVars, devVars, aoVars, scVars, sgVars, riVars, itVars, genVars, ciVars, kwVars, dlVars, dpVars, pgVars, pageVars, showVars, formVars, tabVars, gitVars, useVars >>
notGit == << fuVars, devVars, aoVars, scVars, sgVars, riVars, itVars, genVars, ciVars, kwVars, dlVars, dpVars, pgVars, pageVars, showVars, formVars, tabVars, dsVars, useVars >>
notDpUse == << fuVars, devVars, aoVars, scVars, sgVars, riVars, itVars, genVars, ciVars, kwVars, dlVars, pgVars, pageVars, showVars, formVars, tabVars, dsVars, gitVars >>

-----------------------------------------------------------------------------
(* Promises *)

Pending      == [state |-> "pending"]
Fulfilled(v) == [state |-> "fulfilled", value |-> v]
Rejected(e)  == [state |-> "rejected", reason |-> e]

IsPending(p)   == p.state = "pending"
IsFulfilled(p) == p.state = "fulfilled"
IsRejected(p)  == p.state = "rejected"
IsSettled(p)   == p.state \in { "fulfilled", "rejected" }

\* a promise resolved with another promise whose state it has not taken yet
Following == [state |-> "following"]

\* ToBoolean of a JavaScript number (NaN does not occur in the snippets)
Truthy(n) == n # 0

Scripts == { "fetchUserDemo", "getUser", "developer", "attemptOperation",
             "stepChain", "safeGetUser", "createRangeIterator",
             "rangeIterable", "twoWayGenerator", "circle",
             "keywords",
             "delay",
             "fetchData",
             "processUsers",
             "loadAllData",
             "heroPage",
             "guessGame",
             "ninjaForm",
             "tabs",
             "dataStorage",
             "gitRepository" }

-----------------------------------------------------------------------------
(* Javascript/es6_demo.js: fetchUser *)

\* const usersId = 1
usersId == 1

\* arguments fetchUser is tried with; 24 is the demonstrated one
UserIds == { 0, 1, 2, 24 }

\* fetchUser(user_id): creates the promise and arms the 1000 ms timer
FetchUserStart(user_id) ==
    /\ fuPc = "idle"
    /\ fuPc' = "timer"
    /\ fuArg' = user_id
    /\ fuUserId' = user_id
    /\ fuPromise' = Pending

\* the demonstrated call: fetchUser(24).then(...).catch(...); the model
\* tries the chain with every id of UserIds
FetchUserDemoCall ==
    /\ script = "fetchUserDemo"
    /\ \E user_id \in UserIds : FetchUserStart(user_id)
    /\ UNCHANGED << script, console, fuHandler, guPc, guPromise, notFu >>

\* The timer callback.  The condition `user_id = usersId` is an assignment
\* expression: it stores usersId in user_id and its value is the value stored.
FetchUserTimeout ==
    /\ fuPc = "timer"
    /\ fuPc' = "settled"
    /\ fuUserId' = usersId
    /\ fuPromise' = IF Truthy(fuUserId')
                    THEN Fulfilled([id |-> fuUserId', name |-> "Tiff"])
                    ELSE Rejected("Failed to fetch user")
    /\ UNCHANGED << script, console, fuArg, fuHandler, guPc, guPromise, notFu >>

\* .then(user => console.log(user)).catch(error => console.error(...)):
\* the reactions of the demonstrated chain, run once the promise has settled
FetchUserDemoReact ==
    /\ script = "fetchUserDemo"
    /\ fuPc = "settled"
    /\ fuHandler = "none"
    /\ IF IsFulfilled(fuPromise)
       THEN /\ fuHandler' = "then"
            /\ console' = Append(console, [log |-> "user", user |-> fuPromise.value])
       ELSE /\ fuHandler' = "catch"
            /\ console' = Append(console,
                    [log |-> "Error found is:", error |-> fuPromise.reason])
    /\ UNCHANGED << script, fuPc, fuArg, fuUserId, fuPromise, guPc, guPromise, notFu >>

-----------------------------------------------------------------------------
(* Javascript/es6_demo.js: getUser *)

\* async function getUser(): runs to `await fetchUser(1)`
GetUserCall ==
    /\ script = "getUser"
    /\ guPc = "idle"
    /\ FetchUserStart(1)
    /\ guPc' = "await"
    /\ guPromise' = Pending
    /\ UNCHANGED << script, console, fuHandler, notFu >>

\* getUser with the finally block run before the try block's log
GetUserResumeFinallyFirst ==
    /\ script = "getUser"
    /\ guPc = "await"
    /\ IsSettled(fuPromise)
    /\ LET logged == IF IsFulfilled(fuPromise)
                     THEN [log |-> "user", user |-> fuPromise.value]
                     ELSE [log |-> "error", error |-> fuPromise.reason]
       IN console' = << [log |-> "Fnc executed "], logged >>
    /\ guPc' = "done"
    /\ guPromise' = Fulfilled("undefined")
    /\ UNCHANGED << script, fuPc, fuArg, fuUserId, fuPromise, fuHandler, notFu >>

\* the try / catch / finally around the await, resumed when fetchUser's
\* promise has settled
GetUserResume ==
    /\ script = "getUser"
    /\ guPc = "await"
    /\ IsSettled(fuPromise)
    /\ LET logged == IF IsFulfilled(fuPromise)
                     THEN [log |-> "user", user |-> fuPromise.value]
                     ELSE [log |-> "error", error |-> fuPromise.reason]
       IN console' = console \o << logged, [log |-> "Fnc executed "] >>
    /\ guPc' = "done"
    /\ guPromise' = Fulfilled("undefined")
    /\ UNCHANGED << script, fuPc, fuArg, fuUserId, fuPromise, fuHandler, notFu >>

-----------------------------------------------------------------------------
(* Developer: the OOP guide (unnamed/part_000) and 8. Typescript/oop.ts *)

\* calls made on one developer in a run
MaxDevCalls == 7

\* const junior = new Developer("Alice")
NewGuideDeveloper ==
    /\ script = "developer"
    /\ devVersion = "none"
    /\ devVersion' = "guide"
    /\ caffeineLevel' = 0
    /\ UNCHANGED << script, console, devTrace, notDev >>

\* const juniorDev = new Developer('Dan')
NewOopDeveloper ==
    /\ script = "developer"
    /\ devVersion = "none"
    /\ devVersion' = "oop"
    /\ caffeineLevel' = 0
    /\ UNCHANGED << script, console, devTrace, notDev >>

GuideDrinkCoffee ==
    /\ devVersion = "guide"
    /\ Len(devTrace) < MaxDevCalls
    /\ caffeineLevel' = caffeineLevel + 20
    /\ console' = Append(console, [log |-> "drinks coffee", level |-> caffeineLevel'])
    /\ devTrace' = Append(devTrace, [op |-> "drinkCoffee", branch |-> "drink", level |-> caffeineLevel'])
    /\ UNCHANGED << script, devVersion, notDev >>

GuideCode ==
    /\ devVersion = "guide"
    /\ Len(devTrace) < MaxDevCalls
    /\ IF caffeineLevel > 0
       THEN /\ console' = Append(console, [log |-> "is coding", level |-> caffeineLevel])
            /\ caffeineLevel' = caffeineLevel - 10
            /\ devTrace' = Append(devTrace, [op |-> "code", branch |-> "coding", level |-> caffeineLevel'])
       ELSE /\ console' = Append(console, [log |-> "needs coffee first", level |-> caffeineLevel])
            /\ caffeineLevel' = caffeineLevel
            /\ devTrace' = Append(devTrace, [op |-> "code", branch |-> "needsCoffee", level |-> caffeineLevel'])
    /\ UNCHANGED << script, devVersion, notDev >>

OopDrinkCoffee ==
    /\ devVersion = "oop"
    /\ Len(devTrace) < MaxDevCalls
    /\ caffeineLevel' = caffeineLevel + 2
    /\ console' = Append(console, [log |-> "drinks coffee", level |-> caffeineLevel'])
    /\ devTrace' = Append(devTrace, [op |-> "drinkCoffee", branch |-> "drink", level |-> caffeineLevel'])
    /\ UNCHANGED << script, devVersion, notDev >>

\* code() of oop.ts with the condition of the guide
OopCodeAboveZero ==
    /\ devVersion = "oop"
    /\ Len(devTrace) < MaxDevCalls
    /\ IF caffeineLevel > 0
       THEN /\ console' = Append(console, [log |-> "is coding", level |-> caffeineLevel])
            /\ caffeineLevel' = caffeineLevel - 10
            /\ devTrace' = Append(devTrace, [op |-> "code", branch |-> "coding", level |-> caffeineLevel'])
       ELSE /\ console' = Append(console, [log |-> "needs coffee first", level |-> caffeineLevel])
            /\ caffeineLevel' = caffeineLevel
            /\ devTrace' = Append(devTrace, [op |-> "code", branch |-> "needsCoffee", level |-> caffeineLevel'])
    /\ UNCHANGED << script, devVersion, notDev >>

OopCode ==
    /\ devVersion = "oop"
    /\ Len(devTrace) < MaxDevCalls
    /\ IF caffeineLevel > 10
       THEN /\ console' = Append(console, [log |-> "is coding", level |-> caffeineLevel])
            /\ caffeineLevel' = caffeineLevel - 10
            /\ devTrace' = Append(devTrace, [op |-> "code", branch |-> "coding", level |-> caffeineLevel'])
       ELSE /\ console' = Append(console, [log |-> "needs coffee first", level |-> caffeineLevel])
            /\ caffeineLevel' = caffeineLevel
            /\ devTrace' = Append(devTrace, [op |-> "code", branch |-> "needsCoffee", level |-> caffeineLevel'])
    /\ UNCHANGED << script, devVersion, notDev >>

-----------------------------------------------------------------------------
(* Javascript/ES6.md: riskyOperation and attemptOperation *)

\* values of Math.random(), in tenths
RandomTenths == { 0, 4, 5, 6, 9 }

\* random > 0.5, in tenths
RiskyThreshold == 5

\* riskyOperation(): draws random, creates the promise, arms the timer
RiskyOperationStart(random) ==
    /\ aoRandom' = Append(aoRandom, random)
    /\ aoRisky' = Append(aoRisky, Pending)

\* the timer callback of riskyOperation
RiskyOutcome(random) ==
    IF random > RiskyThreshold
    THEN Fulfilled([text |-> "Success with", random |-> random])
    ELSE Rejected([text |-> "Failed with", random |-> random])

\* attemptOperation(): the first riskyOperation() call; the two catch
\* reactions and the caller's then are registered on its promise
AttemptOperationCall ==
    /\ script = "attemptOperation"
    /\ aoRisky = << >>
    /\ \E random \in RandomTenths : RiskyOperationStart(random)
    /\ UNCHANGED << script, console, aoFirst, aoResult, aoFinal, notAo >>

RiskyOperationTimeout(i) ==
    /\ IsPending(aoRisky[i])
    /\ aoRisky' = [aoRisky EXCEPT ![i] = RiskyOutcome(aoRandom[i])]
    /\ UNCHANGED << script, console, aoRandom, aoFirst, aoResult, aoFinal, notAo >>

\* .catch(error => { console.log(...); return riskyOperation(); })
FirstCatchReact ==
    /\ Len(aoRisky) >= 1
    /\ IsSettled(aoRisky[1])
    /\ IsPending(aoFirst)
    /\ IF IsFulfilled(aoRisky[1])
       THEN /\ aoFirst' = aoRisky[1]
            /\ UNCHANGED << console, aoRandom, aoRisky >>
       ELSE /\ console' = Append(console, [log |-> "First attempt failed, trying again..."])
            /\ \E random \in RandomTenths : RiskyOperationStart(random)
            /\ aoFirst' = Following
    /\ UNCHANGED << script, aoResult, aoFinal, notAo >>

\* the promise of the first catch takes the state of the retry's promise
FirstCatchAdopt ==
    /\ aoFirst = Following
    /\ IsSettled(aoRisky[2])
    /\ aoFirst' = aoRisky[2]
    /\ UNCHANGED << script, console, aoRandom, aoRisky, aoResult, aoFinal, notAo >>

\* the second catch with a handler that logs and throws the error again
SecondCatchRethrows ==
    /\ IsSettled(aoFirst)
    /\ IsPending(aoResult)
    /\ IF IsFulfilled(aoFirst)
       THEN /\ aoResult' = aoFirst
            /\ UNCHANGED console
       ELSE /\ console' = Append(console, [log |-> "Second attempt failed, using fallback"])
            /\ aoResult' = aoFirst
    /\ UNCHANGED << script, aoRandom, aoRisky, aoFirst, aoFinal, notAo >>

\* .catch(error => { console.log(...); return "Fallback value"; })
SecondCatchReact ==
    /\ IsSettled(aoFirst)
    /\ IsPending(aoResult)
    /\ IF IsFulfilled(aoFirst)
       THEN /\ aoResult' = aoFirst
            /\ UNCHANGED console
       ELSE /\ console' = Append(console, [log |-> "Second attempt failed, using fallback"])
            /\ aoResult' = Fulfilled([text |-> "Fallback value"])
    /\ UNCHANGED << script, aoRandom, aoRisky, aoFirst, aoFinal, notAo >>

\* attemptOperation().then(result => console.log("Final result:", result))
FinalThenReact ==
    /\ IsSettled(aoResult)
    /\ ~aoFinal
    /\ aoFinal' = TRUE
    /\ console' = IF IsFulfilled(aoResult)
                  THEN Append(console, [log |-> "Final result:", result |-> aoResult.value])
                  ELSE console
    /\ UNCHANGED << script, aoRandom, aoRisky, aoFirst, aoResult, notAo >>

-----------------------------------------------------------------------------
(* Javascript/ES6.md: sequential promise chaining, step1 / step2 / step3 *)

Steps == 1 .. 3

StepIdle == [state |-> "idle"]

StepText(i) ==
    IF i = 1 THEN "Step 1 completed"
    ELSE IF i = 2 THEN "Step 2 completed" ELSE "Step 3 completed"

\* a step that leaves previousResult out of its result
StepResultDropsPrevious(i, previousResult) == StepText(i)

\* what step i resolves its promise with
StepResult(i, previousResult) ==
    IF i = 1 THEN StepText(1) ELSE previousResult \o " -> " \o StepText(i)

\* step1(): the head of the chain
StepChainStart ==
    /\ script = "stepChain"
    /\ scStep[1] = StepIdle
    /\ scStep' = [scStep EXCEPT ![1] = Pending]
    /\ UNCHANGED << script, console, scArg, scChain, scCatchRan, notSc >>

\* the timer callback of step i
StepTimeout(i) ==
    /\ IsPending(scStep[i])
    /\ scStep' = [scStep EXCEPT ![i] = Fulfilled(StepResult(i, scArg[i]))]
    /\ UNCHANGED << script, console, scArg, scChain, scCatchRan, notSc >>

\* the i-th .then: logs the result it receives and returns the next step's
\* promise (the third one returns nothing)
ThenReact(i) ==
    LET source == IF i = 1 THEN scStep[1] ELSE scChain[i - 1] IN
    /\ IsSettled(source)
    /\ IsPending(scChain[i])
    /\ IF IsFulfilled(source)
       THEN /\ console' = Append(console, source.value)
            /\ IF i < 3
               THEN /\ scStep' = [scStep EXCEPT ![i + 1] = Pending]
                    /\ scArg' = [scArg EXCEPT ![i + 1] = source.value]
                    /\ scChain' = [scChain EXCEPT ![i] = Following]
               ELSE /\ scChain' = [scChain EXCEPT ![i] = Fulfilled("undefined")]
                    /\ UNCHANGED << scStep, scArg >>
       ELSE /\ scChain' = [scChain EXCEPT ![i] = source]
            /\ UNCHANGED << console, scStep, scArg >>
    /\ UNCHANGED << script, scCatchRan, notSc >>

\* the promise of the i-th .then takes the state of the step it returned
ChainAdopt(i) ==
    /\ scChain[i] = Following
    /\ IsSettled(scStep[i + 1])
    /\ scChain' = [scChain EXCEPT ![i] = scStep[i + 1]]
    /\ UNCHANGED << script, console, scStep, scArg, scCatchRan, notSc >>

\* .catch(error => console.error("Error in chain:", error))
CatchReact ==
    /\ IsSettled(scChain[3])
    /\ IsPending(scChain[4])
    /\ IF IsRejected(scChain[3])
       THEN /\ console' = Append(console, "Error in chain:")
            /\ scCatchRan' = TRUE
            /\ scChain' = [scChain EXCEPT ![4] = Fulfilled("undefined")]
       ELSE /\ scChain' = [scChain EXCEPT ![4] = scChain[3]]
            /\ UNCHANGED << console, scCatchRan >>
    /\ UNCHANGED << script, scStep, scArg, notSc >>

-----------------------------------------------------------------------------
(* TypeScript guide (unnamed/part_001, advanced_ts.md): getUser, safeGetUser *)

\* ids safeGetUser is called with; users_id = 1 is the demonstrated one
Ids == { 1, 2 }

Null == [null |-> TRUE]

\* what response.json() can produce for a request for user id
JsonBodies(id) == { [id |-> id, name |-> "Ty"], [message |-> "Not Found"] }

\* safeGetUser(id): enters the try block and calls getUser(id), which runs
\* to `await fetch(...)`
SafeGetUserCall ==
    /\ script = "safeGetUser"
    /\ sgPc = "idle"
    /\ \E id \in Ids : sgId' = id
    /\ sgPc' = "fetch"
    /\ UNCHANGED << script, console, sgGetUser, sgResult, notSg >>

\* fetch settles: with a response, and getUser goes on to
\* `await response.json()`, or with a network error, which getUser does not
\* catch
FetchSettles ==
    /\ sgPc = "fetch"
    /\ \/ /\ sgPc' = "json"
          /\ UNCHANGED sgGetUser
       \/ /\ sgPc' = "settled"
          /\ sgGetUser' = Rejected([error |-> "TypeError", message |-> "Failed to fetch"])
    /\ UNCHANGED << script, console, sgId, sgResult, notSg >>

\* response.json() settles: with the parsed body, which getUser returns, or
\* with a parse error, which getUser does not catch
JsonSettles ==
    /\ sgPc = "json"
    /\ sgPc' = "settled"
    /\ \/ \E data \in JsonBodies(sgId) : sgGetUser' = Fulfilled(data)
       \/ sgGetUser' = Rejected([error |-> "SyntaxError", message |-> "Unexpected token"])
    /\ UNCHANGED << script, console, sgId, sgResult, notSg >>

\* safeGetUser without its try / catch
SafeGetUserResumeNoCatch ==
    /\ sgPc = "settled"
    /\ sgPc' = "done"
    /\ sgResult' = sgGetUser
    /\ UNCHANGED << script, console, sgId, sgGetUser, notSg >>

\* safeGetUser resumes after `await getUser(id)`: returns the user, or
\* catches the error, logs it and returns null
SafeGetUserResume ==
    /\ sgPc = "settled"
    /\ sgPc' = "done"
    /\ IF IsFulfilled(sgGetUser)
       THEN /\ sgResult' = Fulfilled(sgGetUser.value)
            /\ UNCHANGED console
       ELSE /\ console' = Append(console,
                    [log |-> "Failed to fetch Users", error |-> sgGetUser.reason])
            /\ sgResult' = Fulfilled(Null)
    /\ UNCHANGED << script, sgId, sgGetUser, notSg >>

-----------------------------------------------------------------------------
(* Javascript/ES6.md: createRangeIterator *)

\* start and end are drawn from -1 .. MaxRangeValue
MaxRangeValue == 3

\* next() calls made on one iterator
MaxNextCalls == 6

RangeValues == (0 - 1) .. MaxRangeValue

\* createRangeIterator(start, end)
CreateRangeIterator ==
    /\ script = "createRangeIterator"
    /\ riPc = "none"
    /\ riPc' = "made"
    /\ \E start \in RangeValues, end \in RangeValues :
          /\ riStart' = start
          /\ riEnd' = end
          /\ riCurrent' = start
    /\ UNCHANGED << script, console, riResults, notRi >>

\* next() with the bound included
RangeIteratorNextInclusive ==
    /\ riPc = "made"
    /\ Len(riResults) < MaxNextCalls
    /\ IF riCurrent <= riEnd
       THEN /\ riResults' = Append(riResults, [value |-> riCurrent, done |-> FALSE])
            /\ riCurrent' = riCurrent + 1
       ELSE /\ riResults' = Append(riResults, [done |-> TRUE])
            /\ UNCHANGED riCurrent
    /\ UNCHANGED << script, console, riPc, riStart, riEnd, notRi >>

\* iterator.next()
RangeIteratorNext ==
    /\ riPc = "made"
    /\ Len(riResults) < MaxNextCalls
    /\ IF riCurrent < riEnd
       THEN /\ riResults' = Append(riResults, [value |-> riCurrent, done |-> FALSE])
            /\ riCurrent' = riCurrent + 1
       ELSE /\ riResults' = Append(riResults, [done |-> TRUE])
            /\ UNCHANGED riCurrent
    /\ UNCHANGED << script, console, riPc, riStart, riEnd, notRi >>

-----------------------------------------------------------------------------
(* Javascript/ES6.md: the iterable object range *)

\* iterators obtained from the range object in one run
MaxIterators == 3

\* const range = { start: 1, end: 5, ... }
RangeObject == [start |-> 1, end |-> 5]

\* [Symbol.iterator]() with the position kept across calls
RangeSymbolIteratorShared ==
    /\ script = "rangeIterable"
    /\ Len(iterators) < MaxIterators
    /\ iterators' = Append(iterators,
            [current |-> IF iterators = << >> THEN range.start
                         ELSE iterators[Len(iterators)].current,
             end |-> range.end, out |-> << >>, done |-> FALSE])
    /\ UNCHANGED << script, console, range, notIt >>

\* range[Symbol.iterator](): called by for...of and by spread
RangeSymbolIterator ==
    /\ script = "rangeIterable"
    /\ Len(iterators) < MaxIterators
    /\ iterators' = Append(iterators,
            [current |-> range.start, end |-> range.end,
             out |-> << >>, done |-> FALSE])
    /\ UNCHANGED << script, console, range, notIt >>

\* next() of the i-th iterator, called by its for...of or spread until it
\* answers done
IteratorNext(i) ==
    /\ ~iterators[i].done
    /\ LET it == iterators[i] IN
       iterators' = [iterators EXCEPT ![i] =
            IF it.current < it.end
            THEN [it EXCEPT !.out = Append(it.out, it.current),
                            !.current = it.current + 1]
            ELSE [it EXCEPT !.done = TRUE]]
    /\ UNCHANGED << script, console, range, notIt >>

-----------------------------------------------------------------------------
(* Javascript/ES6.md: twoWayGenerator *)

\* next() calls made on the generator
MaxGenCalls == 4

\* arguments of next(); "undefined" is next() without an argument
GenInputs == { "undefined", "Hello", "World" }

\* const twoWayGen = twoWayGenerator(): no statement of the body runs yet
TwoWayGeneratorCall ==
    /\ script = "twoWayGenerator"
    /\ genPc = "none"
    /\ genPc' = "start"
    /\ UNCHANGED << script, console, genArgs, genResults, notGen >>

\* next(v) where a yield evaluates to the argument of the next() call that
\* reached it instead of the one that resumes it
GeneratorNextPreviousArgument(v) ==
    /\ genPc # "none"
    /\ Len(genResults) < MaxGenCalls
    /\ genArgs' = Append(genArgs, v)
    /\ CASE genPc = "start" ->
              /\ genPc' = "yield1"
              /\ genResults' = Append(genResults, [value |-> "First yield", done |-> FALSE])
              /\ UNCHANGED console
         [] genPc = "yield1" ->
              /\ console' = Append(console, [log |-> "Received:", input |-> genArgs[Len(genArgs)]])
              /\ genPc' = "yield2"
              /\ genResults' = Append(genResults, [value |-> "Second yield", done |-> FALSE])
         [] genPc = "yield2" ->
              /\ console' = Append(console, [log |-> "Received:", input |-> genArgs[Len(genArgs)]])
              /\ genPc' = "done"
              /\ genResults' = Append(genResults, [value |-> "Done", done |-> TRUE])
         [] genPc = "done" ->
              /\ genResults' = Append(genResults, [value |-> "undefined", done |-> TRUE])
              /\ UNCHANGED << console, genPc >>
    /\ UNCHANGED << script, notGen >>

\* twoWayGen.next(v): resumes the body at the yield where it is paused, with
\* v as the value of that yield, and runs it to the next yield or the return
GeneratorNext(v) ==
    /\ genPc # "none"
    /\ Len(genResults) < MaxGenCalls
    /\ genArgs' = Append(genArgs, v)
    /\ CASE genPc = "start" ->
              /\ genPc' = "yield1"
              /\ genResults' = Append(genResults, [value |-> "First yield", done |-> FALSE])
              /\ UNCHANGED console
         [] genPc = "yield1" ->
              /\ console' = Append(console, [log |-> "Received:", input |-> v])
              /\ genPc' = "yield2"
              /\ genResults' = Append(genResults, [value |-> "Second yield", done |-> FALSE])
         [] genPc = "yield2" ->
              /\ console' = Append(console, [log |-> "Received:", input |-> v])
              /\ genPc' = "done"
              /\ genResults' = Append(genResults, [value |-> "Done", done |-> TRUE])
         [] genPc = "done" ->
              /\ genResults' = Append(genResults, [value |-> "undefined", done |-> TRUE])
              /\ UNCHANGED << console, genPc >>
    /\ UNCHANGED << script, notGen >>

-----------------------------------------------------------------------------
(* Javascript/ES6.md: Circle *)

\* radii are drawn from -MaxRadius .. MaxRadius
MaxRadius == 3

CircleValues == (0 - MaxRadius) .. MaxRadius

\* Math.PI * r ** 2, as a multiple of pi
Area(r) == [timesPi |-> r * r]

\* 2 * Math.PI * r, as a multiple of pi
Circumference(r) == [timesPi |-> 2 * r]

\* new Circle(radius): the constructor stores its argument as it is
NewCircle ==
    /\ script = "circle"
    /\ circlePc = "none"
    /\ circlePc' = "made"
    /\ \E radius \in CircleValues :
          /\ circleRadius' = radius
          /\ circleLast' = [op |-> "new", value |-> radius]
    /\ UNCHANGED << script, console, notCi >>

\* the setter with the test written value < 0
SetRadiusAllowsZero(value) ==
    /\ circlePc = "made"
    /\ IF value < 0
       THEN /\ circleLast' = [op |-> "set", value |-> value, threw |-> TRUE,
                              error |-> "Radius must be positive",
                              before |-> circleRadius]
            /\ UNCHANGED circleRadius
       ELSE /\ circleRadius' = value
            /\ circleLast' = [op |-> "set", value |-> value, threw |-> FALSE,
                              before |-> circleRadius]
    /\ UNCHANGED << script, console, circlePc, notCi >>

\* circle.radius = value
SetRadius(value) ==
    /\ circlePc = "made"
    /\ IF value <= 0
       THEN /\ circleLast' = [op |-> "set", value |-> value, threw |-> TRUE,
                              error |-> "Radius must be positive",
                              before |-> circleRadius]
            /\ UNCHANGED circleRadius
       ELSE /\ circleRadius' = value
            /\ circleLast' = [op |-> "set", value |-> value, threw |-> FALSE,
                              before |-> circleRadius]
    /\ UNCHANGED << script, console, circlePc, notCi >>

\* circle.area
GetArea ==
    /\ circlePc = "made"
    /\ circleLast' = [op |-> "area", result |-> Area(circleRadius)]
    /\ UNCHANGED << script, console, circlePc, circleRadius, notCi >>

\* circle.circumference
GetCircumference ==
    /\ circlePc = "made"
    /\ circleLast' = [op |-> "circumference", result |-> Circumference(circleRadius)]
    /\ UNCHANGED << script, console, circlePc, circleRadius, notCi >>

-----------------------------------------------------------------------------
(* Strings: a string is the sequence of its characters *)

UpperLetters == << "A", "B", "C", "D", "E", "F", "G", "H", "I", "J", "K", "L", "M",
                   "N", "O", "P", "Q", "R", "S", "T", "U", "V", "W", "X", "Y", "Z" >>
LowerLetters == << "a", "b", "c", "d", "e", "f", "g", "h", "i", "j", "k", "l", "m",
                   "n", "o", "p", "q", "r", "s", "t", "u", "v", "w", "x", "y", "z" >>

\* toLowerCase of one character
LowerChar(c) ==
    IF \E i \in DOMAIN UpperLetters : UpperLetters[i] = c
    THEN LowerLetters[CHOOSE i \in DOMAIN UpperLetters : UpperLetters[i] = c]
    ELSE c

\* String.prototype.toLowerCase
ToLowerCase(s) == [i \in 1 .. Len(s) |-> LowerChar(s[i])]

\* String.prototype.includes: t occurs in s as a contiguous run
Includes(s, t) ==
    \E i \in 0 .. (Len(s) - Len(t)) : SubSeq(s, i + 1, i + Len(t)) = t

-----------------------------------------------------------------------------
(* Javascript/ES6.md: hasAnyKeyword / hasAllKeywords *)

\* blogPost.title
BlogTitle == << "J", "a", "v", "a", "S", "c", "r", "i", "p", "t", " ", "E", "S", "6", " ", "F", "e", "a", "t", "u", "r", "e", "s" >>

\* const searchKeywords = ["javascript", "features"]
SearchKeywords == << << "j", "a", "v", "a", "s", "c", "r", "i", "p", "t" >>,
                     << "f", "e", "a", "t", "u", "r", "e", "s" >> >>

\* texts and keyword lists the two functions are tried with
KwTexts == { BlogTitle, << "E", "S", "6", " ", "G", "u", "i", "d", "e" >>, << "F", "E", "A", "T", "U", "R", "E", "S" >> }

KwLists == { SearchKeywords,
             << << "p", "y", "t", "h", "o", "n" >> >>,
             << << "J", "a", "v", "a", "S", "c", "r", "i", "p", "t" >>, << "p", "y", "t", "h", "o", "n" >> >>,
             << << "E", "s", "6" >> >>,
             << >> }

\* hasAnyKeyword(text, keywords)
HasAnyKeyword(text, keywords) ==
    LET lowerText == ToLowerCase(text) IN
    \E k \in 1 .. Len(keywords) : Includes(lowerText, ToLowerCase(keywords[k]))

\* hasAllKeywords(text, keywords)
HasAllKeywords(text, keywords) ==
    LET lowerText == ToLowerCase(text) IN
    \A k \in 1 .. Len(keywords) : Includes(lowerText, ToLowerCase(keywords[k]))

\* console.log(hasAnyKeyword(...)); console.log(hasAllKeywords(...))
KeywordSearch ==
    /\ script = "keywords"
    /\ kwPc = "idle"
    /\ kwPc' = "done"
    /\ \E text \in KwTexts, keywords \in KwLists :
          /\ kwText' = text
          /\ kwKeywords' = keywords
          /\ kwAny' = HasAnyKeyword(text, keywords)
          /\ kwAll' = HasAllKeywords(text, keywords)
    /\ UNCHANGED << script, console, notKw >>

-----------------------------------------------------------------------------
(* Javascript/ES6.md: delay and the test 'async/await handles promises' *)

\* delay(ms) is tried with ms in 0 .. MaxDelay (the test uses 100)
MaxDelay == 2

\* the clock runs from 0 to MaxClock milliseconds
MaxClock == 4

DelayValues == 0 .. MaxDelay

\* time passes
ClockTick ==
    /\ script = "delay"
    /\ dlNow < MaxClock
    /\ dlNow' = dlNow + 1
    /\ UNCHANGED << script, console, dlPc, dlMs, dlStart, dlDue, dlPromise, dlElapsed, notDl >>

\* const start = Date.now(); await delay(ms): delay creates the promise and
\* arms a timer of ms milliseconds, and the caller is suspended on the promise
DelayAwait ==
    /\ script = "delay"
    /\ dlPc = "idle"
    /\ dlPc' = "waiting"
    /\ \E ms \in DelayValues :
          /\ dlMs' = ms
          /\ dlDue' = dlNow + ms
    /\ dlStart' = dlNow
    /\ dlPromise' = Pending
    /\ UNCHANGED << script, console, dlNow, dlElapsed, notDl >>

\* the timer callback, resolve: setTimeout runs it once the delay has passed
DelayTimerFires ==
    /\ dlPc = "waiting"
    /\ IsPending(dlPromise)
    /\ dlNow >= dlDue
    /\ dlPromise' = Fulfilled("undefined")
    /\ UNCHANGED << script, console, dlPc, dlNow, dlMs, dlStart, dlDue, dlElapsed, notDl >>

\* the caller going on without the await
DelayResumeWithoutAwait ==
    /\ dlPc = "waiting"
    /\ dlPc' = "resumed"
    /\ dlElapsed' = dlNow - dlStart
    /\ UNCHANGED << script, console, dlNow, dlMs, dlStart, dlDue, dlPromise, notDl >>

\* the code after the await: const elapsed = Date.now() - start
DelayResume ==
    /\ dlPc = "waiting"
    /\ IsFulfilled(dlPromise)
    /\ dlPc' = "resumed"
    /\ dlElapsed' = dlNow - dlStart
    /\ UNCHANGED << script, console, dlNow, dlMs, dlStart, dlDue, dlPromise, notDl >>

-----------------------------------------------------------------------------
(* Javascript/ES6.md: DataProcessor.fetchData and processUsers.  One run   *)
(* makes fetchData calls on a new processor, another calls processUsers on *)
(* a new processor.                                                        *)

\* fetchData calls the caller makes on the processor in one run
MaxDpCalls == 3

\* length of the userIds array given to processUsers
MaxPuIds == 2

\* new DataProcessor('https://api.example.com')
ApiUrl == "https://api.example.com"

\* user ids requested by processUsers
DpIds == { 1, 2 }

\* the caller's own calls repeat one request: fetchData('users', { id: 1 })
DirectIds == { 1 }

\* items the 'products' source may hold, and the pageSize asked for
MaxItems == 3
MaxPageSize == 2

\* the source of 'products' holds items 1 .. total; page n of size size
FromTo(first, last) == [i \in 1 .. (IF last < first THEN 0 ELSE last - first + 1) |-> first + i - 1]
PageItems(total, n, size) ==
    FromTo((n - 1) * size + 1, IF n * size < total THEN n * size ELSE total)

\* what the server may answer a request.  For a user, the answer to the same
\* request can differ from one request to the next.  For a page of products
\* it is the page's items; a page past the end comes with an empty items
\* array or with no items at all.
DpData(call) ==
    IF call.endpoint = "users"
    THEN { [id |-> call.params.id, active |-> TRUE],
           [id |-> call.params.id, active |-> FALSE], Null }
    ELSE LET items == PageItems(pgTotal, call.params.page, call.params.pageSize) IN
         IF items # << >> THEN { [items |-> items] }
         ELSE { [items |-> << >>], [total |-> pgTotal] }

\* `${this.apiUrl}/${endpoint}-${JSON.stringify(params)}`
CacheKey(endpoint, params) == [url |-> << ApiUrl, endpoint >>, json |-> params]

DpKeys ==
    { CacheKey("users", [id |-> id]) : id \in DpIds }
        \cup { CacheKey("products", [page |-> n, pageSize |-> size]) :
                   n \in 1 .. MaxItems + 1, size \in 1 .. MaxPageSize }

\* no entry of the Map for a key
NoEntry == [entry |-> FALSE]

\* this.cache.has(key)
CacheHas(cache, key) == cache[key] # NoEntry

\* the calls that have settled
Settled(calls) == { d \in 1 .. Len(calls) : calls[d].pc = "done" }

\* fetchData(endpoint, params) up to its first await: a cache hit returns the
\* cached data, a miss issues the request.  `after` records the calls that
\* had settled when this one started.
StartCall(endpoint, params, cache, calls) ==
    LET key == CacheKey(endpoint, params) IN
    IF CacheHas(cache, key)
    THEN [endpoint |-> endpoint, params |-> params, key |-> key, pc |-> "done",
          requested |-> FALSE, result |-> Fulfilled(cache[key]),
          after |-> Settled(calls)]
    ELSE [endpoint |-> endpoint, params |-> params, key |-> key, pc |-> "fetch",
          requested |-> TRUE, result |-> Pending, after |-> Settled(calls)]

\* userIds.map(id => this.fetchData('users', { id })): the calls start one
\* after the other with nothing else running in between
RECURSIVE StartAll(_, _, _)
StartAll(ids, cache, calls) ==
    IF ids = << >> THEN calls
    ELSE StartAll(Tail(ids), cache,
                  Append(calls, StartCall("users", [id |-> Head(ids)], cache, calls)))

\* processor.fetchData('users', { id })
FetchDataCall ==
    /\ script = "fetchData"
    /\ Len(dpCalls) < MaxDpCalls
    /\ \E id \in DirectIds :
          dpCalls' = StartAll(<< id >>, dpCache, dpCalls)
    /\ UNCHANGED << script, console, dpCache, dpWrites, puPc, puIds, puResult, notDp >>

\* a catch block that also stores the failure in the cache
FetchDataFailsAndCaches(c, error) ==
    /\ console' = Append(console, [log |-> "Fetch failed:", error |-> error])
    /\ dpCalls' = [dpCalls EXCEPT ![c].pc = "done", ![c].result = Rejected(error)]
    /\ dpCache' = [dpCache EXCEPT ![dpCalls[c].key] = Null]
    /\ UNCHANGED dpWrites

\* the catch block of fetchData: logs the error and throws it again
FetchDataFails(c, error) ==
    /\ console' = Append(console, [log |-> "Fetch failed:", error |-> error])
    /\ dpCalls' = [dpCalls EXCEPT ![c].pc = "done", ![c].result = Rejected(error)]
    /\ UNCHANGED << dpCache, dpWrites >>

\* `await fetch(...)` of call c settles: fetch rejects, or the response is
\* not ok and the call throws, or it is ok and the call goes on to
\* `await response.json()`
FetchResponds(c) ==
    /\ dpCalls[c].pc = "fetch"
    /\ \/ FetchDataFails(c, [error |-> "TypeError", message |-> "Failed to fetch"])
       \/ FetchDataFails(c, [error |-> "Error", message |-> "HTTP 500"])
       \/ /\ dpCalls' = [dpCalls EXCEPT ![c].pc = "json"]
          /\ UNCHANGED << console, dpCache, dpWrites >>
    /\ UNCHANGED << script, puPc, puIds, puResult, notDp >>

\* this.cache.set(cacheKey, data); return data
FetchDataSucceeds(c, data) ==
    /\ dpCache' = [dpCache EXCEPT ![dpCalls[c].key] = data]
    /\ dpWrites' = Append(dpWrites, c)
    /\ dpCalls' = [dpCalls EXCEPT ![c].pc = "done", ![c].result = Fulfilled(data)]
    /\ UNCHANGED console

\* `await response.json()` of call c settles: with the data, or with a parse
\* error
JsonResponds(c) ==
    /\ dpCalls[c].pc = "json"
    /\ \/ \E data \in DpData(dpCalls[c]) : FetchDataSucceeds(c, data)
       \/ FetchDataFails(c, [error |-> "SyntaxError", message |-> "Unexpected token"])
    /\ UNCHANGED << script, puPc, puIds, puResult, notDp >>

\* the arrays processUsers is called with: ids may repeat
PuIdLists == UNION { [1 .. n -> DpIds] : n \in 1 .. MaxPuIds }

\* processUsers(userIds) up to `await Promise.allSettled(promises)`
ProcessUsersCall ==
    /\ script = "processUsers"
    /\ puPc = "idle"
    /\ \E ids \in PuIdLists :
          /\ puIds' = ids
          /\ dpCalls' = StartAll(ids, dpCache, dpCalls)
    /\ puPc' = "waiting"
    /\ UNCHANGED << script, console, dpCache, dpWrites, puResult, notDp >>

\* const promises: the promises of the calls processUsers made, in the
\* order of userIds
PuPromises == [k \in 1 .. Len(puIds) |-> dpCalls[k].result]

\* a filter that asks only whether there is a user
TruthyUser(user) == user # Null

\* user && user.active
ActiveUser(user) == IF user = Null THEN FALSE ELSE user.active

\* results.filter(fulfilled).map(value).filter(user => user && user.active)
RECURSIVE ActiveValues(_)
ActiveValues(promises) ==
    IF promises = << >> THEN << >>
    ELSE LET p == Head(promises) IN
         (IF IsFulfilled(p) /\ ActiveUser(p.value) THEN << p.value >> ELSE << >>)
            \o ActiveValues(Tail(promises))

\* processUsers written with Promise.all: the first rejection rejects it
ProcessUsersResumeAll ==
    /\ puPc = "waiting"
    /\ \A k \in 1 .. Len(puIds) : IsSettled(PuPromises[k])
    /\ puPc' = "done"
    /\ puResult' = IF \E k \in 1 .. Len(puIds) : IsRejected(PuPromises[k])
                   THEN PuPromises[CHOOSE k \in 1 .. Len(puIds) : IsRejected(PuPromises[k])]
                   ELSE Fulfilled(ActiveValues(PuPromises))
    /\ UNCHANGED << script, console, dpCalls, dpCache, dpWrites, puIds, notDp >>

\* processUsers resumes when every promise has settled and returns the
\* filtered values
ProcessUsersResume ==
    /\ puPc = "waiting"
    /\ \A k \in 1 .. Len(puIds) : IsSettled(PuPromises[k])
    /\ puPc' = "done"
    /\ puResult' = Fulfilled(ActiveValues(PuPromises))
    /\ UNCHANGED << script, console, dpCalls, dpCache, dpWrites, puIds, notDp >>


-----------------------------------------------------------------------------
(* Javascript/ES6.md: DataProcessor.paginateData and loadAllData *)

\* if (allData.length >= 100)
BatchSize == 100

\* data.items && data.items.length > 0
HasItems(data) == "items" \in DOMAIN data /\ Len(data.items) > 0

\* a comparison turned round: go on after a short page
HasMoreInverted(items, size) == Len(items) < size

\* hasMore = data.items.length === pageSize
HasMore(items, size) == Len(items) = size

\* loadAllData() on a new processor, for a source of some size, up to the
\* first `await this.fetchData(endpoint, { page, pageSize })` of the generator
LoadAllDataCall ==
    /\ script = "loadAllData"
    /\ pgPc = "idle"
    /\ \E total \in 0 .. MaxItems, size \in 1 .. MaxPageSize :
          /\ pgTotal' = total
          /\ pageSize' = size
          /\ dpCalls' = Append(dpCalls, StartCall("products", [page |-> 1, pageSize |-> size],
                                                  dpCache, dpCalls))
    /\ page' = 1
    /\ hasMore' = TRUE
    /\ allData' = << >>
    /\ pgPc' = "fetching"
    /\ UNCHANGED << script, console, dpCache, dpWrites, puPc, puIds, puResult,
                    pgItems, pgNext, loadResult, notDpPg >>

\* a generator that asks for the next page as soon as one has arrived
PaginateResumePrefetch ==
    /\ pgPc = "fetching"
    /\ LET r == dpCalls[Len(dpCalls)].result IN
       /\ IsSettled(r)
       /\ IF IsRejected(r)
          THEN /\ pgPc' = "failed"
               /\ loadResult' = Rejected(r.reason)
               /\ UNCHANGED << hasMore, pgItems, pgNext, dpCalls >>
          ELSE IF HasItems(r.value)
          THEN /\ pgItems' = r.value.items
               /\ pgNext' = 1
               /\ pgPc' = "yielded"
               /\ dpCalls' = Append(dpCalls,
                                    StartCall("products", [page |-> page + 1, pageSize |-> pageSize],
                                              dpCache, dpCalls))
               /\ UNCHANGED << hasMore, loadResult >>
          ELSE /\ hasMore' = FALSE
               /\ pgPc' = "done"
               /\ loadResult' = Fulfilled(allData)
               /\ UNCHANGED << pgItems, pgNext, dpCalls >>
    /\ UNCHANGED << script, console, dpCache, dpWrites, puPc, puIds, puResult,
                    pgTotal, pageSize, page, allData, notDpPg >>

\* the generator resumes after `await this.fetchData(...)`: a rejection leaves
\* the generator and the for-await loop and rejects loadAllData; a page with
\* items is handed to yield*, which yields its first item; any other answer
\* ends the generator and the loop, and loadAllData returns allData
PaginateResume ==
    /\ pgPc = "fetching"
    /\ LET r == dpCalls[Len(dpCalls)].result IN
       /\ IsSettled(r)
       /\ IF IsRejected(r)
          THEN /\ pgPc' = "failed"
               /\ loadResult' = Rejected(r.reason)
               /\ UNCHANGED << hasMore, pgItems, pgNext >>
          ELSE IF HasItems(r.value)
          THEN /\ pgItems' = r.value.items
               /\ pgNext' = 1
               /\ pgPc' = "yielded"
               /\ UNCHANGED << hasMore, loadResult >>
          ELSE /\ hasMore' = FALSE
               /\ pgPc' = "done"
               /\ loadResult' = Fulfilled(allData)
               /\ UNCHANGED << pgItems, pgNext >>
    /\ UNCHANGED << script, console, dpCache, dpWrites, dpCalls, puPc, puIds, puResult,
                    pgTotal, pageSize, page, allData, notDpPg >>

\* the body of the for-await loop runs on the yielded item and asks for the
\* next one: yield* yields the next item of the page, or, the page being
\* exhausted, the generator goes round its loop: page++, hasMore, and either
\* the next fetchData call or the end
ConsumeItem ==
    /\ pgPc = "yielded"
    /\ allData' = Append(allData, pgItems[pgNext])
    /\ console' = IF Len(allData) + 1 >= BatchSize
                  THEN Append(console, [log |-> "Processed items so far", count |-> Len(allData) + 1])
                  ELSE console
    /\ IF pgNext < Len(pgItems)
       THEN /\ pgNext' = pgNext + 1
            /\ UNCHANGED << page, hasMore, dpCalls, pgPc, loadResult >>
       ELSE /\ page' = page + 1
            /\ hasMore' = HasMore(pgItems, pageSize)
            /\ pgNext' = pgNext
            /\ IF HasMore(pgItems, pageSize)
               THEN /\ dpCalls' = Append(dpCalls,
                                         StartCall("products", [page |-> page + 1, pageSize |-> pageSize],
                                                   dpCache, dpCalls))
                    /\ pgPc' = "fetching"
                    /\ UNCHANGED loadResult
               ELSE /\ pgPc' = "done"
                    /\ loadResult' = Fulfilled(Append(allData, pgItems[pgNext]))
                    /\ UNCHANGED dpCalls
    /\ UNCHANGED << script, dpCache, dpWrites, puPc, puIds, puResult,
                    pgTotal, pageSize, pgItems, notDpPg >>


-----------------------------------------------------------------------------
(* unnamed/part_002: the heroes page, guess-the-character game.  Texts are  *)
(* sequences of characters; the emoji that opens a result message is left   *)
(* out of the message texts.  The run "guessGame" plays the game with the   *)
(* visitor typing guesses; the run "heroPage" interleaves the handlers of   *)
(* the whole page with the input fields left as the page sets them.         *)

\* const heroes: the names, in array order
heroes ==
    << [name |-> << "L", "u", "f", "f", "y" >>],
       [name |-> << "G", "o", "j", "o" >>],
       [name |-> << "K", "a", "k", "a", "s", "h", "i" >>],
       [name |-> << "Z", "o", "r", "o" >>],
       [name |-> << "T", "r", "a", "f", "a", "l", "g", "a", "r", " ", "D", ".", " ", "W", "a", "t", "e", "r", " ", "L", "a", "w" >>],
       [name |-> << "K", "i", "l", "u", "a" >>] >>

\* const characters = heroes.map(h => h.name.toLowerCase())
characters == [i \in 1 .. Len(heroes) |-> ToLowerCase(heroes[i].name)]

\* the characters String.prototype.trim removes that the inputs use
WhiteSpace == { " ", "\t", "\n" }

\* String.prototype.trim
RECURSIVE Trim(_)
Trim(s) ==
    IF s = << >> THEN s
    ELSE IF Head(s) \in WhiteSpace THEN Trim(Tail(s))
    ELSE IF s[Len(s)] \in WhiteSpace THEN Trim(SubSeq(s, 1, Len(s) - 1))
    ELSE s

\* what the visitor may have typed into guessInput
GuessInputs ==
    { << >>,
      << " ", " " >>,
      << "L", "u", "f", "f", "y" >>,
      << " ", "l", "u", "f", "f", "y", "\t" >>,
      << "L", "U", "F", "F", "Y" >>,
      << "g", "o", "j", "o" >>,
      << "L", "u", "f", "y" >>,
      << "l", "u", " ", "f", "f", "y" >>,
      << "T", "r", "a", "f", "a", "l", "g", "a", "r", " ", "D", ".", " ", "W", "a", "t", "e", "r", " ", "L", "a", "w" >>,
      << "k", "i", "l", "u", "a", " " >> }

StartFirstText == "Start the game first!"
CorrectText    == "Correct! You guessed the hero!"
IncorrectText  == "Incorrect. Try again!"

\* click on gameBtn; randomIndex counts from 1 here
GameBtnClick ==
    /\ script \in { "guessGame", "heroPage" }
    /\ \E randomIndex \in 1 .. Len(characters) :
          selectedCharacter' = characters[randomIndex]
    /\ gameMessage' = "Guess the character!"
    /\ resultMessage' = ""
    /\ guessInput' = << >>
    /\ pageLast' = [event |-> "gameBtn"]
    /\ UNCHANGED << script, console, notPage >>

\* the visitor edits the guessInput field
TypeGuess ==
    /\ script = "guessGame"
    /\ \E value \in GuessInputs : guessInput' = value
    /\ pageLast' = [event |-> "input"]
    /\ UNCHANGED << script, console, selectedCharacter, gameMessage, resultMessage, notPage >>

\* a handler that compares before it looks whether a game is running
SubmitGuessCompareFirst ==
    /\ script \in { "guessGame", "heroPage" }
    /\ LET userGuess == ToLowerCase(Trim(guessInput)) IN
       resultMessage' = IF userGuess = selectedCharacter THEN CorrectText
                        ELSE IF selectedCharacter = << >> THEN StartFirstText
                        ELSE IncorrectText
    /\ pageLast' = [event |-> "submitGuess", value |-> guessInput, selected |-> selectedCharacter]
    /\ UNCHANGED << script, console, selectedCharacter, gameMessage, guessInput, notPage >>

\* a handler that compares the input as typed, without trim()
SubmitGuessWithoutTrim ==
    /\ script \in { "guessGame", "heroPage" }
    /\ LET userGuess == ToLowerCase(guessInput) IN
       resultMessage' = IF selectedCharacter = << >> THEN StartFirstText
                        ELSE IF userGuess = selectedCharacter THEN CorrectText
                        ELSE IncorrectText
    /\ pageLast' = [event |-> "submitGuess", value |-> guessInput, selected |-> selectedCharacter]
    /\ UNCHANGED << script, console, selectedCharacter, gameMessage, guessInput, notPage >>

\* click on submitGuess.  pageLast keeps the input and the selection the
\* handler found.
SubmitGuessClick ==
    /\ script \in { "guessGame", "heroPage" }
    /\ LET userGuess == ToLowerCase(Trim(guessInput)) IN
       resultMessage' = IF selectedCharacter = << >> THEN StartFirstText
                        ELSE IF userGuess = selectedCharacter THEN CorrectText
                        ELSE IncorrectText
    /\ pageLast' = [event |-> "submitGuess", value |-> guessInput, selected |-> selectedCharacter]
    /\ UNCHANGED << script, console, selectedCharacter, gameMessage, guessInput, notPage >>

\* click on resetGame
ResetGameClick ==
    /\ script \in { "guessGame", "heroPage" }
    /\ selectedCharacter' = << >>
    /\ gameMessage' = "Try guessing the character again!"
    /\ resultMessage' = ""
    /\ guessInput' = << >>
    /\ pageLast' = [event |-> "resetGame"]
    /\ UNCHANGED << script, console, notPage >>


-----------------------------------------------------------------------------
(* unnamed/part_002: the heroes page, the other handlers: summon, the      *)
(* slideshow timer, keypress and double click                              *)

\* keypress events in one run (each one adds a console line)
MaxKeyPresses == 1

\* e.key of the keypress events
Keys == { "a" }

\* const slideshowImages, by the file name of each URL
slideshowImages ==
    << "illustration-anime-city_23-2151779683.jpg",
       "fight-samurai-robot-dojo-sci-fi-action-scene-illustration-digital-painting_37402-1224.jpg",
       "anime-style-character-with-fire_23-2151152178.jpg",
       "illustration-anime-character-rain_23-2151394669.jpg",
       "female-hunter-with-bow-battlefield-digital-art-style-illustration-painting_37402-459.jpg" >>

\* a summon handler that also makes the summoned hero the character to guess
SummonBtnClickSelects ==
    /\ script = "heroPage"
    /\ \E index \in 1 .. Len(heroes) :
          /\ heroContainer' = [hero |-> heroes[index]]
          /\ selectedCharacter' = heroes[index].name
    /\ UNCHANGED << script, console, slideIndex, animeImage,
                    gameMessage, resultMessage, guessInput, pageLast, notShowPage >>

\* click on summonBtn: heroContainer shows a hero picked at random (the index
\* counts from 1 here) and the sound is played
SummonBtnClick ==
    /\ script = "heroPage"
    /\ \E index \in 1 .. Len(heroes) :
          heroContainer' = [hero |-> heroes[index]]
    /\ UNCHANGED << script, console, slideIndex, animeImage, pageVars, notShowPage >>

\* a callback that takes the image before it advances the index
SlideshowTickShowsCurrent ==
    /\ script = "heroPage"
    /\ animeImage' = slideshowImages[slideIndex + 1]
    /\ slideIndex' = (slideIndex + 1) % Len(slideshowImages)
    /\ UNCHANGED << script, console, heroContainer, pageVars, notShowPage >>

\* the setInterval callback.  slideIndex counts from 0 as in the source; the
\* sequence slideshowImages is indexed from 1.
SlideshowTick ==
    /\ script = "heroPage"
    /\ slideIndex' = (slideIndex + 1) % Len(slideshowImages)
    /\ animeImage' = slideshowImages[((slideIndex + 1) % Len(slideshowImages)) + 1]
    /\ UNCHANGED << script, console, heroContainer, pageVars, notShowPage >>

\* keypress on the document
KeyPress ==
    /\ script = "heroPage"
    /\ Len(console) < MaxKeyPresses
    /\ \E key \in Keys : console' = Append(console, [log |-> "You pressed:", key |-> key])
    /\ UNCHANGED << script, heroContainer, slideIndex, animeImage, pageVars, notShowPage >>

\* dblclick on heroContainer: alert() shows its dialog and returns when the
\* visitor has closed it; nothing of the page has changed then
HeroContainerDblClick ==
    /\ script = "heroPage"
    /\ UNCHANGED vars


-----------------------------------------------------------------------------
(* unnamed/part_002: the ninja form.  The run "ninjaForm" fills the fields  *)
(* in and submits; in the run "heroPage" the form is submitted as loaded.   *)

\* what the visitor may have typed into #name, #email and #password
FormNames ==
    { << >>,
      << " ", " " >>,
      << " ", "N", "a", "r", "u", "t", "o", " " >> }

FormEmails ==
    { << >>,
      << " " >>,
      << "a", "@", "b", ".", "c" >>,
      << " ", "a", "@", "b", ".", "c", " " >>,
      << "a", "@", "b" >>,
      << "a", "b", ".", "c" >>,
      << "a", " ", "@", "b", ".", "c" >>,
      << "@", "b", ".", "c" >>,
      << "a", "@", ".", "c" >>,
      << "a", "@", "b", "." >>,
      << "a", "@", "b", " ", ".", "c" >>,
      << "x", " ", "a", "@", "b", ".", "c", "d", " ", "y" >>,
      << "a", ".", "b", "@", "c" >> }

FormPasswords ==
    { << >>,
      << "1", "2", "3", "4", "5", "6", "7" >>,
      << "1", "2", "3", "4", "5", "6", "7", "8" >>,
      << " ", " ", " ", " ", " ", " ", " ", " " >>,
      << " ", "1", "2", "3", "4", "5", "6", "7" >> }

\* const message, without the emoji that opens it.  The welcome carries the
\* name it is made with.
FillInText       == [text |-> "Please fill in all fields correctly!"]
InvalidEmailText == [text |-> "Invalid email format!"]
WelcomeText(name) == [text |-> "Welcome, ${name}-san! You've joined the academy.", name |-> name]

\* password.length < 8
MinPasswordLength == 8

\* the pieces of /\S+@\S+\.\S+/
NonSpaces   == [piece |-> "\\S+"]
Literal(c)  == [piece |-> "literal", char |-> c]
EmailRegExp == << NonSpaces, Literal("@"), NonSpaces, Literal("."), NonSpaces >>

\* the positions at which a match of one piece can end when it starts at one
\* of the positions `from` (a position is the index of the next character)
MatchPiece(s, from, piece) ==
    IF piece = NonSpaces
    THEN { q \in 1 .. Len(s) + 1 :
              \E p \in from : p < q /\ \A k \in p .. q - 1 : s[k] \notin WhiteSpace }
    ELSE { p + 1 : p \in { r \in from : r <= Len(s) /\ s[r] = piece.char } }

RECURSIVE MatchPieces(_, _, _)
MatchPieces(s, from, pieces) ==
    IF pieces = << >> THEN from
    ELSE MatchPieces(s, MatchPiece(s, from, Head(pieces)), Tail(pieces))

\* RegExp.prototype.test: a match may start anywhere
RegExpTest(pieces, s) == MatchPieces(s, 1 .. Len(s) + 1, pieces) # { }

\* the visitor edits a field of the form
FormType ==
    /\ script = "ninjaForm"
    /\ \/ \E name \in FormNames :
             formName' = name /\ UNCHANGED << formEmail, formPassword >>
       \/ \E email \in FormEmails :
             formEmail' = email /\ UNCHANGED << formName, formPassword >>
       \/ \E password \in FormPasswords :
             formPassword' = password /\ UNCHANGED << formName, formEmail >>
    /\ formLast' = [event |-> "input"]
    /\ UNCHANGED << script, console, formFeedback, notForm >>

\* a handler that tests the email before the empty fields
NinjaFormSubmitEmailFirst ==
    /\ script \in { "ninjaForm", "heroPage" }
    /\ LET name == Trim(formName)
           email == Trim(formEmail)
           password == formPassword
       IN formFeedback' =
              IF ~RegExpTest(EmailRegExp, email) THEN InvalidEmailText
              ELSE IF name = << >> \/ email = << >> \/ Len(password) < MinPasswordLength
              THEN FillInText
              ELSE WelcomeText(name)
    /\ formLast' = [event |-> "submit", defaultPrevented |-> TRUE]
    /\ UNCHANGED << script, console, formName, formEmail, formPassword, notForm >>

\* submit of ninjaForm
NinjaFormSubmit ==
    /\ script \in { "ninjaForm", "heroPage" }
    /\ LET name == Trim(formName)
           email == Trim(formEmail)
           password == formPassword
       IN formFeedback' =
              IF name = << >> \/ email = << >> \/ Len(password) < MinPasswordLength
              THEN FillInText
              ELSE IF ~RegExpTest(EmailRegExp, email) THEN InvalidEmailText
              ELSE WelcomeText(name)
    /\ formLast' = [event |-> "submit", defaultPrevented |-> TRUE]
    /\ UNCHANGED << script, console, formName, formEmail, formPassword, notForm >>


-----------------------------------------------------------------------------
(* unnamed/part_002: showTab.  The page's markup is not part of the source: *)
(* the document is taken to hold three elements of class tab-content and    *)
(* one element that is not, any of which may carry 'active' at load.        *)

\* the elements of the document, by id
Elements ==
    { [id |-> "tab1", tabContent |-> TRUE],
      [id |-> "tab2", tabContent |-> TRUE],
      [id |-> "tab3", tabContent |-> TRUE],
      [id |-> "summonBtn", tabContent |-> FALSE] }

ElementIds == { e.id : e \in Elements }

\* document.querySelectorAll('.tab-content')
TabContentIds == { e.id : e \in { x \in Elements : x.tabContent } }

\* the arguments showTab is called with; no element has the id "missing"
TabIds == ElementIds \cup { "missing" }

\* showTab that does not hide the other tabs
ShowTabKeepsOthers(tabId) ==
    /\ script = "tabs"
    /\ activeClass' = activeClass \cup (IF tabId \in ElementIds THEN { tabId } ELSE { })
    /\ tabLast' = [event |-> "showTab", tabId |-> tabId]
    /\ UNCHANGED << script, console, notTab >>

\* showTab(tabId)
ShowTab(tabId) ==
    /\ script = "tabs"
    /\ activeClass' = (activeClass \ TabContentIds)
                         \cup (IF tabId \in ElementIds THEN { tabId } ELSE { })
    /\ tabLast' = [event |-> "showTab", tabId |-> tabId]
    /\ UNCHANGED << script, console, notTab >>


-----------------------------------------------------------------------------
(* 8. Typescript/advanced_ts.md and unnamed/part_001: DataStorage<number>.  *)
(* The caller holds the array getItems returned until its next call on the  *)
(* storage or until it has changed the array.                               *)

\* items the storage holds at most
MaxDsItems == 3

\* number values
Num(n) == [number |-> n]
NaN    == [nan |-> TRUE]

\* items added and removed: 1 and 23 as in the usage, and NaN
DsItems == { Num(1), Num(23), NaN }

\* i === item: NaN is not equal to itself
StrictEquals(a, b) == a # NaN /\ b # NaN /\ a = b

\* this.data.filter(i => i !== item)
RECURSIVE Without(_, _)
Without(data, item) ==
    IF data = << >> THEN << >>
    ELSE (IF StrictEquals(Head(data), item) THEN << >> ELSE << Head(data) >>)
            \o Without(Tail(data), item)

NotHeld == [held |-> FALSE]

\* addItem(item): push changes the array this.data refers to in place
AddItem(item) ==
    /\ script = "dataStorage"
    /\ Len(dsData) < MaxDsItems
    /\ dsData' = Append(dsData, item)
    /\ dsHeld' = NotHeld
    /\ dsLast' = [op |-> "addItem", item |-> item, before |-> dsData]
    /\ UNCHANGED << script, console, notDs >>

\* removeItem(item): this.data becomes the new array filter made
RemoveItem(item) ==
    /\ script = "dataStorage"
    /\ dsData' = Without(dsData, item)
    /\ dsHeld' = NotHeld
    /\ dsLast' = [op |-> "removeItem", item |-> item, before |-> dsData]
    /\ UNCHANGED << script, console, notDs >>

\* getItems that hands out this.data itself
GetItemsShared ==
    /\ script = "dataStorage"
    /\ dsHeld' = [held |-> TRUE, array |-> dsData, shared |-> TRUE]
    /\ dsLast' = [op |-> "getItems", before |-> dsData]
    /\ UNCHANGED << script, console, dsData, notDs >>

\* getItems(): the caller receives a new array with the items of this.data;
\* shared tells whether the array held is the array this.data refers to
GetItems ==
    /\ script = "dataStorage"
    /\ dsHeld' = [held |-> TRUE, array |-> dsData, shared |-> FALSE]
    /\ dsLast' = [op |-> "getItems", before |-> dsData]
    /\ UNCHANGED << script, console, dsData, notDs >>

\* what the caller may do to an array: push an item, pop, reverse
CallerChanges(array) ==
    { Append(array, item) : item \in DsItems }
        \cup (IF array = << >> THEN { } ELSE { SubSeq(array, 1, Len(array) - 1) })
        \cup { [i \in 1 .. Len(array) |-> array[Len(array) + 1 - i]] }

\* the caller changes the array it holds; the change reaches this.data only
\* if the two are one array
CallerMutates ==
    /\ script = "dataStorage"
    /\ dsHeld.held
    /\ \E changed \in CallerChanges(dsHeld.array) :
          /\ dsData' = IF dsHeld.shared THEN changed ELSE dsData
          /\ dsLast' = [op |-> "mutate", before |-> dsData, array |-> dsHeld.array,
                        changed |-> changed]
    /\ dsHeld' = NotHeld
    /\ UNCHANGED << script, console, notDs >>


-----------------------------------------------------------------------------
(* 8. Typescript/oop.ts and the OOP guide (unnamed/part_000): GitRepository. *)
(* The two versions differ in the visibility of commits and in the texts     *)
(* logged; constructor, push and authenticate are the same.                  *)

\* push calls made on one repository in a run
MaxPushes == 3

\* secret tokens a repository is constructed with, as sequences of characters
Tokens == { << >>, << "1" >>, << "g", "h", "p", "_" >> }

\* messages pushed
PushMessages == { "Fixed the bug that only happens on fridays" }

AuthenticatingLog == [log |-> "Authenticating using secret token...."]

\* authenticate(): return this.secretToken.length > 0, after its log
Authenticate(token) == Len(token) > 0

\* push that counts the commit without asking authenticate()
PushUnauthenticated(message) ==
    /\ script = "gitRepository"
    /\ pushCalls < MaxPushes
    /\ pushCalls' = pushCalls + 1
    /\ commits' = commits + 1
    /\ console' = Append(console, [log |-> "pushed", message |-> message, total |-> commits'])
    /\ UNCHANGED << script, secretToken, notGit >>

\* push(message): authenticate() logs and answers, and only then is the
\* commit counted and logged
Push(message) ==
    /\ script = "gitRepository"
    /\ pushCalls < MaxPushes
    /\ pushCalls' = pushCalls + 1
    /\ IF Authenticate(secretToken)
       THEN /\ commits' = commits + 1
            /\ console' = console \o << AuthenticatingLog,
                             [log |-> "pushed", message |-> message, total |-> commits'] >>
       ELSE /\ commits' = commits
            /\ console' = Append(console, AuthenticatingLog)
    /\ UNCHANGED << script, secretToken, notGit >>


-----------------------------------------------------------------------------
(* Javascript/ES6.md: the usage example of processUsers.  The then-handler  *)
(* runs once the promise of processUsers is fulfilled; reading active of a  *)
(* user that is null throws, and the catch handler then logs the failure.   *)

\* users.reduce((acc, user) => { acc[user.active ? 'activeUsers' :
\* 'inactiveUsers'].push(user); return acc }, acc)
RECURSIVE Reduce(_, _)
Reduce(users, acc) ==
    IF users = << >> THEN acc
    ELSE LET user == Head(users)
             key  == IF user.active THEN "activeUsers" ELSE "inactiveUsers"
         IN Reduce(Tail(users), [acc EXCEPT ![key] = Append(@, user)])

\* .then(users => { ... console.log(`Found ${activeUsers.length} active
\* users`) }).catch(error => console.error('Processing failed:', error))
ThenUsers ==
    /\ script = "processUsers"
    /\ puPc = "done"
    /\ IsFulfilled(puResult)
    /\ puPc' = "handled"
    /\ LET users == puResult.value IN
       IF \E i \in 1 .. Len(users) : users[i] = Null
       THEN /\ console' = Append(console, [log |-> "Processing failed:", error |-> "TypeError"])
            /\ UNCHANGED << activeUsers, inactiveUsers >>
       ELSE LET groups == Reduce(users, [activeUsers |-> << >>, inactiveUsers |-> << >>]) IN
            /\ activeUsers' = groups.activeUsers
            /\ inactiveUsers' = groups.inactiveUsers
            /\ console' = Append(console, [log |-> "Found active users",
                                           count |-> Len(groups.activeUsers)])
    /\ UNCHANGED << script, dpCalls, dpCache, dpWrites, puIds, puResult, notDpUse >>

-----------------------------------------------------------------------------
Init ==
    /\ script \in Scripts
    /\ console = << >>
    /\ fuPc = "idle"
    /\ fuArg = 0
    /\ fuUserId = 0
    /\ fuPromise = Pending
    /\ fuHandler = "none"
    /\ guPc = "idle"
    /\ guPromise = Pending
    /\ devVersion = "none"
    /\ caffeineLevel = 0
    /\ devTrace = << >>
    /\ aoRandom = << >>
    /\ aoRisky = << >>
    /\ aoFirst = Pending
    /\ aoResult = Pending
    /\ aoFinal = FALSE
    /\ scStep = [i \in Steps |-> StepIdle]
    /\ scArg = [i \in Steps |-> ""]
    /\ scChain = [i \in 1 .. 4 |-> Pending]
    /\ scCatchRan = FALSE
    /\ sgPc = "idle"
    /\ sgId = 0
    /\ sgGetUser = Pending
    /\ sgResult = Pending
    /\ riPc = "none"
    /\ riStart = 0
    /\ riEnd = 0
    /\ riCurrent = 0
    /\ riResults = << >>
    /\ range = RangeObject
    /\ iterators = << >>
    /\ genPc = "none"
    /\ genArgs = << >>
    /\ genResults = << >>
    /\ circlePc = "none"
    /\ circleRadius = 0
    /\ circleLast = [op |-> "none"]
    /\ kwPc = "idle"
    /\ kwText = << >>
    /\ kwKeywords = << >>
    /\ kwAny = FALSE
    /\ kwAll = FALSE
    /\ dlPc = "idle"
    /\ dlNow = 0
    /\ dlMs = 0
    /\ dlStart = 0
    /\ dlDue = 0
    /\ dlPromise = Pending
    /\ dlElapsed = 0
    /\ dpCache = [key \in DpKeys |-> NoEntry]
    /\ dpCalls = << >>
    /\ dpWrites = << >>
    /\ puPc = "idle"
    /\ puIds = << >>
    /\ puResult = Pending
    /\ pgPc = "idle"
    /\ pgTotal = 0
    /\ pageSize = 0
    /\ page = 0
    /\ hasMore = FALSE
    /\ pgItems = << >>
    /\ pgNext = 0
    /\ allData = << >>
    /\ loadResult = Pending
    /\ selectedCharacter = << >>
    /\ gameMessage = ""
    /\ resultMessage = ""
    /\ guessInput = << >>
    /\ pageLast = [event |-> "load"]
    /\ heroContainer = [empty |-> TRUE]
    /\ slideIndex = 0
    /\ animeImage = ""
    /\ formName = << >>
    /\ formEmail = << >>
    /\ formPassword = << >>
    /\ formFeedback = [text |-> ""]
    /\ formLast = [event |-> "load"]
    /\ activeClass \in (IF script = "tabs" THEN SUBSET ElementIds ELSE { { } })
    /\ tabLast = [event |-> "load"]
    /\ dsData = << >>
    /\ dsHeld = NotHeld
    /\ dsLast = [op |-> "new"]
    /\ secretToken \in (IF script = "gitRepository" THEN Tokens ELSE { << >> })
    /\ commits = 0
    /\ pushCalls = 0
    /\ activeUsers = << >>
    /\ inactiveUsers = << >>

Next ==
    \/ FetchUserDemoCall
    \/ FetchUserTimeout
    \/ FetchUserDemoReact
    \/ GetUserCall
    \/ GetUserResume
    \/ NewGuideDeveloper
    \/ NewOopDeveloper
    \/ GuideDrinkCoffee
    \/ GuideCode
    \/ OopDrinkCoffee
    \/ OopCode
    \/ AttemptOperationCall
    \/ \E i \in 1 .. Len(aoRisky) : RiskyOperationTimeout(i)
    \/ FirstCatchReact
    \/ FirstCatchAdopt
    \/ SecondCatchReact
    \/ FinalThenReact
    \/ StepChainStart
    \/ \E i \in Steps : StepTimeout(i)
    \/ \E i \in Steps : ThenReact(i)
    \/ \E i \in 1 .. 2 : ChainAdopt(i)
    \/ CatchReact
    \/ SafeGetUserCall
    \/ FetchSettles
    \/ JsonSettles
    \/ SafeGetUserResume
    \/ CreateRangeIterator
    \/ RangeIteratorNext
    \/ RangeSymbolIterator
    \/ \E i \in 1 .. Len(iterators) : IteratorNext(i)
    \/ TwoWayGeneratorCall
    \/ \E v \in GenInputs : GeneratorNext(v)
    \/ NewCircle
    \/ \E value \in CircleValues : SetRadius(value)
    \/ GetArea
    \/ GetCircumference
    \/ KeywordSearch
    \/ ClockTick
    \/ DelayAwait
    \/ DelayTimerFires
    \/ DelayResume
    \/ FetchDataCall
    \/ \E c \in 1 .. Len(dpCalls) : FetchResponds(c)
    \/ \E c \in 1 .. Len(dpCalls) : JsonResponds(c)
    \/ ProcessUsersCall
    \/ ProcessUsersResume
    \/ LoadAllDataCall
    \/ PaginateResume
    \/ ConsumeItem
    \/ GameBtnClick
    \/ TypeGuess
    \/ SubmitGuessClick
    \/ ResetGameClick
    \/ SummonBtnClick
    \/ SlideshowTick
    \/ KeyPress
    \/ HeroContainerDblClick
    \/ FormType
    \/ NinjaFormSubmit
    \/ \E tabId \in TabIds : ShowTab(tabId)
    \/ \E item \in DsItems : AddItem(item)
    \/ \E item \in DsItems : RemoveItem(item)
    \/ GetItems
    \/ CallerMutates
    \/ \E message \in PushMessages : Push(message)
    \/ ThenUsers

Spec == Init /\ [][Next]_vars

\* Timers fire and the reactions of settled promises run: the event loop
\* leaves no ready callback unexecuted.  Calls made by a caller (the
\* Developer's methods) are not forced.
EventLoop ==
    \/ FetchUserDemoCall
    \/ FetchUserTimeout
    \/ FetchUserDemoReact
    \/ GetUserCall
    \/ GetUserResume
    \/ AttemptOperationCall
    \/ \E i \in 1 .. Len(aoRisky) : RiskyOperationTimeout(i)
    \/ FirstCatchReact
    \/ FirstCatchAdopt
    \/ SecondCatchReact
    \/ FinalThenReact
    \/ StepChainStart
    \/ \E i \in Steps : StepTimeout(i)
    \/ \E i \in Steps : ThenReact(i)
    \/ \E i \in 1 .. 2 : ChainAdopt(i)
    \/ CatchReact
    \/ SafeGetUserCall
    \/ FetchSettles
    \/ JsonSettles
    \/ SafeGetUserResume
    \/ ClockTick
    \/ DelayAwait
    \/ DelayTimerFires
    \/ DelayResume
    \/ \E c \in 1 .. Len(dpCalls) : FetchResponds(c)
    \/ \E c \in 1 .. Len(dpCalls) : JsonResponds(c)
    \/ ProcessUsersResume
    \/ PaginateResume
    \/ ConsumeItem

FairSpec == Spec /\ WF_vars(EventLoop)

-----------------------------------------------------------------------------
(* Properties *)

\* number of console entries whose text is t
RECURSIVE CountLog(_, _)
CountLog(log, t) ==
    IF log = << >> THEN 0
    ELSE (IF Head(log).log = t THEN 1 ELSE 0) + CountLog(Tail(log), t)

\* C1: fetchUser(user_id) fulfils with a user only when user_id is the stored
\* id (1); for every other id the promise rejects with 'Failed to fetch user',
\* so the chain on fetchUser(24) ends in its catch handler, never in then.
C1_FetchUserRejectsOtherIds ==
    (script = "fetchUserDemo" /\ fuPc = "settled") =>
        /\ IsFulfilled(fuPromise) <=> (fuArg = usersId)
        /\ fuArg # usersId => fuPromise = Rejected("Failed to fetch user")
        /\ fuArg = 24 => fuHandler # "then"

\* C2: a newly constructed Developer that calls drinkCoffee() once and then
\* code() takes the coding branch, which lowers the caffeine level by 10.
C2_CoffeeThenCodeIsCoding ==
    (/\ script = "developer"
     /\ Len(devTrace) >= 2
     /\ devTrace[1].op = "drinkCoffee"
     /\ devTrace[2].op = "code") =>
        /\ devTrace[2].branch = "coding"
        /\ devTrace[2].level = devTrace[1].level - 10

\* C6: getUser's finally block logs 'Fnc executed ' exactly once, after the
\* user (fetchUser fulfilled) or the error (fetchUser rejected) has been
\* logged, and the promise getUser returns never rejects.
C6_GetUserFinallyOnce ==
    script = "getUser" =>
        /\ ~IsRejected(guPromise)
        /\ guPc # "done" => console = << >> /\ IsPending(guPromise)
        /\ guPc = "done" =>
            /\ IsFulfilled(guPromise)
            /\ CountLog(console, "Fnc executed ") = 1
            /\ Len(console) = 2
            /\ console[2].log = "Fnc executed "
            /\ console[1] = IF IsFulfilled(fuPromise)
                            THEN [log |-> "user", user |-> fuPromise.value]
                            ELSE [log |-> "error", error |-> fuPromise.reason]

C6_Witness ==
    /\ script = "getUser"
    /\ guPc = "done"
    /\ console = << [log |-> "user", user |-> [id |-> 1, name |-> "Tiff"]],
                    [log |-> "Fnc executed "] >>

\* what attemptOperation may have done so far: it has not rejected, has
\* called riskyOperation at most twice, the second time only after the first
\* call rejected, and a result is the first success or else the fallback
AttemptOperationSafe ==
    script = "attemptOperation" =>
        /\ ~IsRejected(aoResult)
        /\ Len(aoRisky) <= 2
        /\ Len(aoRisky) = 2 => IsRejected(aoRisky[1])
        /\ IsFulfilled(aoResult) =>
              aoResult.value =
                  IF IsFulfilled(aoRisky[1]) THEN aoRisky[1].value
                  ELSE IF IsFulfilled(aoRisky[2]) THEN aoRisky[2].value
                  ELSE [text |-> "Fallback value"]

\* C3: attemptOperation() never rejects: whatever riskyOperation does, the
\* returned promise eventually fulfils, with the first attempt's value, else
\* the second attempt's, else 'Fallback value'; riskyOperation is called at
\* most twice and the second time only after the first call rejected.
C3_AttemptOperationRecovers ==
    /\ []AttemptOperationSafe
    /\ (script = "attemptOperation") ~> IsFulfilled(aoResult)

C3_Witness ==
    /\ script = "attemptOperation"
    /\ Len(aoRisky) = 2
    /\ IsRejected(aoRisky[1])
    /\ IsRejected(aoRisky[2])
    /\ aoResult = Fulfilled([text |-> "Fallback value"])
    /\ aoFinal

\* C4: in the step1 / step2 / step3 chain each step starts only after the
\* one before it has resolved, the three results are logged in that order,
\* the last one is 'Step 1 completed -> Step 2 completed -> Step 3
\* completed', and the catch handler never runs.
C4_StepChainInOrder ==
    LET expected == << "Step 1 completed",
                       "Step 1 completed -> Step 2 completed",
                       "Step 1 completed -> Step 2 completed -> Step 3 completed" >>
    IN script = "stepChain" =>
        /\ \A i \in 2 .. 3 : scStep[i] # StepIdle => IsFulfilled(scStep[i - 1])
        /\ Len(console) <= 3
        /\ console = SubSeq(expected, 1, Len(console))
        /\ \A i \in Steps : IsFulfilled(scStep[i]) => scStep[i].value = expected[i]
        /\ IsSettled(scChain[4]) => console = expected
        /\ ~scCatchRan
        /\ \A i \in 1 .. 4 : ~IsRejected(scChain[i])

C4_Witness ==
    /\ script = "stepChain"
    /\ IsFulfilled(scChain[4])
    /\ Len(console) = 3
    /\ console[3] = "Step 1 completed -> Step 2 completed -> Step 3 completed"

\* C5: safeGetUser(id) never rejects: it fulfils with the value getUser(id)
\* fulfilled with, and when getUser(id) rejected (failed fetch or failed
\* JSON parsing) it logs the failure and fulfils with null.
C5_SafeGetUserNeverRejects ==
    script = "safeGetUser" =>
        /\ ~IsRejected(sgResult)
        /\ sgPc # "done" => IsPending(sgResult) /\ console = << >>
        /\ sgPc = "done" =>
              IF IsFulfilled(sgGetUser)
              THEN /\ sgResult = [state |-> "fulfilled", value |-> sgGetUser.value]
                   /\ console = << >>
              ELSE /\ IsRejected(sgGetUser)
                   /\ sgResult = [state |-> "fulfilled", value |-> [null |-> TRUE]]
                   /\ Len(console) = 1
                   /\ console[1].error = sgGetUser.reason

C5_Witness ==
    /\ script = "safeGetUser"
    /\ sgPc = "done"
    /\ IsRejected(sgGetUser)
    /\ sgGetUser.reason.error = "SyntaxError"
    /\ sgResult = [state |-> "fulfilled", value |-> [null |-> TRUE]]

\* C7: successive next() calls on createRangeIterator(start, end) return
\* start, start+1, ..., end-1 in that order with done false, and every later
\* call returns done true with no value; with start >= end the first call
\* already returns done true.
C7_RangeIteratorSequence ==
    (script = "createRangeIterator" /\ riPc = "made") =>
        \A k \in 1 .. Len(riResults) :
            IF riStart + (k - 1) < riEnd
            THEN riResults[k] = [value |-> riStart + (k - 1), done |-> FALSE]
            ELSE riResults[k] = [done |-> TRUE]

C7_Witness ==
    /\ script = "createRangeIterator"
    /\ riStart = 1
    /\ riEnd = 3
    /\ riResults = << [value |-> 1, done |-> FALSE], [value |-> 2, done |-> FALSE],
                      [done |-> TRUE], [done |-> TRUE] >>

\* C8: every range[Symbol.iterator]() call returns a fresh iterator with its
\* own position: each of any number of successive or interleaved iterations
\* yields exactly 1, 2, 3, 4, and no iteration changes range.start,
\* range.end or the position of another iterator.
C8_FreshIteratorPerCall ==
    script = "rangeIterable" =>
        /\ range = [start |-> 1, end |-> 5]
        /\ \A i \in 1 .. Len(iterators) :
              /\ iterators[i].out = SubSeq(<< 1, 2, 3, 4 >>, 1, Len(iterators[i].out))
              /\ iterators[i].current = 1 + Len(iterators[i].out)
              /\ iterators[i].done => iterators[i].out = << 1, 2, 3, 4 >>

C8_Witness ==
    /\ script = "rangeIterable"
    /\ Len(iterators) = 2
    /\ iterators[1].out = << 1, 2 >>
    /\ iterators[2].done
    /\ iterators[2].out = << 1, 2, 3, 4 >>

\* C9: twoWayGenerator follows the two-way protocol: the first next() returns
\* 'First yield' and discards its argument; each later next(v) makes v the
\* value of the yield where the generator is paused, so the second call logs
\* 'Received: v' and returns 'Second yield' (done false) and the third logs
\* 'Received: v' and returns 'Done' (done true).
C9_TwoWayProtocol ==
    script = "twoWayGenerator" =>
        /\ Len(genResults) = Len(genArgs)
        /\ Len(console) = (IF Len(genArgs) <= 1 THEN 0
                           ELSE IF Len(genArgs) = 2 THEN 1 ELSE 2)
        /\ Len(genResults) >= 1 =>
              genResults[1] = [value |-> "First yield", done |-> FALSE]
        /\ Len(genResults) >= 2 =>
              /\ genResults[2] = [value |-> "Second yield", done |-> FALSE]
              /\ console[1] = [log |-> "Received:", input |-> genArgs[2]]
        /\ Len(genResults) >= 3 =>
              /\ genResults[3] = [value |-> "Done", done |-> TRUE]
              /\ console[2] = [log |-> "Received:", input |-> genArgs[3]]

C9_Witness ==
    /\ script = "twoWayGenerator"
    /\ genArgs = << "undefined", "Hello", "World" >>
    /\ console = << [log |-> "Received:", input |-> "Hello"],
                    [log |-> "Received:", input |-> "World"] >>
    /\ genResults[3] = [value |-> "Done", done |-> TRUE]

\* C10: assigning a value <= 0 to a Circle's radius throws 'Radius must be
\* positive' and leaves the stored radius (hence area and circumference)
\* unchanged; assigning a positive value replaces the radius, and a read of
\* area gives the area of the radius stored last.
C10_RadiusSetter ==
    script = "circle" =>
        /\ circleLast.op = "set" =>
              IF circleLast.value <= 0
              THEN /\ circleLast.threw
                   /\ circleLast.error = "Radius must be positive"
                   /\ circleRadius = circleLast.before
              ELSE /\ ~circleLast.threw
                   /\ circleRadius = circleLast.value
        /\ circleLast.op = "area" =>
              circleLast.result = [timesPi |-> circleRadius * circleRadius]
        /\ circleLast.op = "circumference" =>
              circleLast.result = [timesPi |-> circleRadius + circleRadius]

C10_Witness ==
    /\ script = "circle"
    /\ circleLast.op = "set"
    /\ circleLast.value = 0
    /\ circleLast.threw
    /\ circleLast.before = 2
    /\ circleRadius = 2

\* C11: hasAllKeywords(blogPost.title, ['javascript', 'features']) returns
\* false for the title 'JavaScript ES6 Features' while hasAnyKeyword on the
\* same arguments returns true; hasAllKeywords is true exactly when every
\* keyword occurs in the text ignoring letter case.
C11_TitleLacksAKeyword ==
    (/\ script = "keywords"
     /\ kwPc = "done"
     /\ kwText = BlogTitle
     /\ kwKeywords = SearchKeywords) =>
        /\ kwAll = FALSE
        /\ kwAny = TRUE

\* C12: the code after `await delay(ms)` resumes only after the timer started
\* by delay has fired, so the elapsed time measured around the await is at
\* least ms.
C12_ResumesAfterTimer ==
    (script = "delay" /\ dlPc = "resumed") =>
        /\ IsFulfilled(dlPromise)
        /\ dlStart + dlMs <= dlNow
        /\ dlElapsed >= dlMs

C12_Witness ==
    /\ script = "delay"
    /\ dlPc = "resumed"
    /\ dlMs = 2
    /\ dlStart = 1
    /\ dlElapsed = 2

\* the writes of the cache made for key, oldest first, as indices in dpCalls
WritesOf(key) == SelectSeq(dpWrites, LAMBDA c : dpCalls[c].key = key)

\* the writes for c's key that had been made when call c started
WritesBefore(c) == SelectSeq(WritesOf(dpCalls[c].key), LAMBDA d : d \in dpCalls[c].after)

\* C13: once a fetchData call has completed successfully, every later call
\* with the same endpoint and params returns the data stored by that first
\* call and issues no network request.
C13_LaterCallsReturnFirstData ==
    \A c \in 1 .. Len(dpCalls) :
        WritesBefore(c) # << >> =>
            /\ ~dpCalls[c].requested
            /\ dpCalls[c].result = dpCalls[WritesOf(dpCalls[c].key)[1]].result

\* C14: when the request of a fetchData call fails, the call rejects with that
\* error and logs it once, and the cache is left as the successful calls
\* wrote it, so that a call started when no call for its key has succeeded
\* issues a request.
C14_FailureRethrownAndNotCached ==
    /\ \A c \in 1 .. Len(dpCalls) :
          /\ IsRejected(dpCalls[c].result) =>
                /\ dpCalls[c].requested
                /\ \E i \in 1 .. Len(console) :
                      console[i] = [log |-> "Fetch failed:", error |-> dpCalls[c].result.reason]
          /\ WritesBefore(c) = << >> => dpCalls[c].requested
    /\ script \in { "fetchData", "processUsers" } =>
          Cardinality({ i \in 1 .. Len(console) : console[i].log = "Fetch failed:" })
              = Cardinality({ c \in 1 .. Len(dpCalls) : IsRejected(dpCalls[c].result) })
    /\ \A key \in DpKeys :
          dpCache[key] = IF WritesOf(key) = << >> THEN NoEntry
                         ELSE dpCalls[WritesOf(key)[Len(WritesOf(key))]].result.value

\* a call failed, and a call for the same key started after the failure issued
\* a request of its own and got data
C14_Witness ==
    \E c, d \in 1 .. Len(dpCalls) :
        /\ d \in dpCalls[c].after
        /\ IsRejected(dpCalls[d].result)
        /\ dpCalls[c].key = dpCalls[d].key
        /\ dpCalls[c].requested
        /\ IsFulfilled(dpCalls[c].result)

\* C15: across every interleaving of fetchData calls, at most one successful
\* network request is made and at most one cache write happens per cache key.
C15_OneWritePerKey ==
    \A key \in DpKeys :
        /\ Len(WritesOf(key)) <= 1
        /\ Cardinality({ c \in 1 .. Len(dpCalls) :
                            /\ dpCalls[c].key = key
                            /\ dpCalls[c].requested
                            /\ IsFulfilled(dpCalls[c].result) }) <= 1

\* the positions of userIds whose fetch fulfilled with a truthy, active user
PuKept ==
    { k \in 1 .. Len(puIds) :
        /\ IsFulfilled(dpCalls[k].result)
        /\ dpCalls[k].result.value # Null
        /\ dpCalls[k].result.value.active }

\* C16: processUsers never rejects; it resumes only when every fetchData call
\* it made has settled and resolves to the fulfilled, truthy, active users in
\* the order of userIds, leaving out rejected fetches and inactive users.
C16_ProcessUsersKeepsActiveInOrder ==
    /\ ~IsRejected(puResult)
    /\ puPc = "done" =>
          /\ \A k \in 1 .. Len(puIds) : IsSettled(dpCalls[k].result)
          /\ IsFulfilled(puResult)
          /\ Len(puResult.value) = Cardinality(PuKept)
          /\ \A k \in PuKept :
                puResult.value[Cardinality({ j \in PuKept : j <= k })] = dpCalls[k].result.value

\* processUsers([1, 2]) resolved to one active user although the other fetch
\* was rejected
C16_Witness ==
    /\ puPc = "done"
    /\ Len(puIds) = 2
    /\ IsRejected(dpCalls[1].result)
    /\ puResult = Fulfilled(<< [id |-> 2, active |-> TRUE] >>)

\* what loadAllData has done when it is over: it returned the items of the
\* source, each once and in order, having asked for the pages up to the first
\* that is not full; or it rejected, and then a request had failed
LoadAllDataSafe ==
    /\ pgPc = "done" =>
          /\ allData = [i \in 1 .. pgTotal |-> i]
          /\ loadResult = Fulfilled(allData)
          /\ \A n \in 1 .. Len(dpCalls) :
                (Len(PageItems(pgTotal, n, pageSize)) = pageSize) <=> (n < Len(dpCalls))
    /\ pgPc = "failed" => IsRejected(dpCalls[Len(dpCalls)].result)

\* no fetchData call has failed
NoFailedRequest == \A c \in 1 .. Len(dpCalls) : ~IsRejected(dpCalls[c].result)

\* C17: for a source of N items served in pages of pageSize and no failing
\* request, the for-await loop of loadAllData terminates having collected
\* exactly the N items, each once, in page order, and iteration stops at the
\* first page that is missing, empty or not full.
C17_LoadAllDataTerminates ==
    /\ []LoadAllDataSafe
    /\ []NoFailedRequest => ((pgPc = "fetching") ~> (pgPc = "done"))

\* two items in pages of two were collected with two requests, the second
\* one for the empty second page
C17_Witness ==
    /\ pgPc = "done"
    /\ pgTotal = 2
    /\ pageSize = 2
    /\ allData = << 1, 2 >>
    /\ Len(dpCalls) = 2
    /\ ~HasItems(dpCalls[2].result.value)

\* C18: paginateData requests pages in the order 1, 2, 3, ... with at most one
\* request in flight, requests page n+1 only when the caller has consumed
\* every item of pages 1 .. n, and after a failed request the error is the
\* rejection of the consumer and no further page is requested.
C18_PagesInOrder ==
    script = "loadAllData" =>
        /\ \A n \in 1 .. Len(dpCalls) :
              /\ dpCalls[n].endpoint = "products"
              /\ dpCalls[n].params = [page |-> n, pageSize |-> pageSize]
              /\ n < Len(dpCalls) =>
                    /\ dpCalls[n].result = Fulfilled([items |-> PageItems(pgTotal, n, pageSize)])
                    /\ Len(allData) >= n * pageSize
                    /\ \A i \in 1 .. n * pageSize : allData[i] = i
        /\ Cardinality({ c \in 1 .. Len(dpCalls) : dpCalls[c].pc # "done" }) <= 1
        /\ (pgPc \in { "done", "failed" } /\ ~NoFailedRequest) =>
              /\ pgPc = "failed"
              /\ loadResult = dpCalls[Len(dpCalls)].result

\* the second page was requested after the first page's items were consumed,
\* the request failed and loadAllData rejected with its error
C18_Witness ==
    /\ pgPc = "failed"
    /\ Len(dpCalls) = 2
    /\ pageSize = 2
    /\ allData = << 1, 2 >>
    /\ IsRejected(loadResult)

\* C19: a guess submitted while no character is selected sets the result
\* message to 'Start the game first!', never to 'Correct' or 'Incorrect',
\* whatever the input, and leaves selectedCharacter unchanged.
C19_GuessBeforeStart ==
    (pageLast.event = "submitGuess" /\ pageLast.selected = << >>) =>
        /\ resultMessage = StartFirstText
        /\ selectedCharacter = << >>

\* an empty guess was submitted after a reset
C19_Witness ==
    /\ pageLast.event = "submitGuess"
    /\ pageLast.selected = << >>
    /\ pageLast.value = << >>
    /\ gameMessage = "Try guessing the character again!"
    /\ resultMessage = StartFirstText

\* input is name with white space around it and letters in either case
MatchesName(input, name) ==
    \E before \in 0 .. Len(input) :
        /\ before + Len(name) <= Len(input)
        /\ \A i \in 1 .. Len(input) :
              IF i <= before \/ i > before + Len(name)
              THEN input[i] \in WhiteSpace
              ELSE \/ input[i] = name[i - before]
                   \/ \E k \in DOMAIN UpperLetters :
                         input[i] = UpperLetters[k] /\ name[i - before] = LowerLetters[k]

\* C20: while a character is selected, a submitted guess is reported correct
\* exactly when the input, trimmed and lowercased, is selectedCharacter, and
\* incorrect otherwise, and the submit leaves selectedCharacter as it was.
C20_GuessCorrectIffMatches ==
    (pageLast.event = "submitGuess" /\ pageLast.selected # << >>) =>
        /\ resultMessage = IF MatchesName(pageLast.value, pageLast.selected)
                           THEN CorrectText ELSE IncorrectText
        /\ selectedCharacter = pageLast.selected

\* ' luffy' followed by a tab was reported correct for luffy, which stays
\* selected
C20_Witness ==
    /\ pageLast.event = "submitGuess"
    /\ pageLast.value = << " ", "l", "u", "f", "f", "y", "\t" >>
    /\ resultMessage = CorrectText
    /\ selectedCharacter = << "l", "u", "f", "f", "y" >>

\* the six hero names in lower case
LowerHeroNames ==
    { << "l", "u", "f", "f", "y" >>,
      << "g", "o", "j", "o" >>,
      << "k", "a", "k", "a", "s", "h", "i" >>,
      << "z", "o", "r", "o" >>,
      << "t", "r", "a", "f", "a", "l", "g", "a", "r", " ", "d", ".", " ", "w", "a", "t", "e", "r", " ", "l", "a", "w" >>,
      << "k", "i", "l", "u", "a" >> }

\* C21: in every state reachable by any interleaving of the page's events,
\* selectedCharacter is the empty string or one of the six lowercased hero
\* names, and only the game-start and reset handlers change it.
C21_SelectedCharacterIsAHero ==
    /\ [](selectedCharacter = << >> \/ selectedCharacter \in LowerHeroNames)
    /\ [][selectedCharacter' # selectedCharacter => (GameBtnClick \/ ResetGameClick)]_vars

\* a character is still selected after a guess, a summon, slideshow ticks, a
\* key press and a submit of the form
C21_Witness ==
    /\ script = "heroPage"
    /\ selectedCharacter \in LowerHeroNames
    /\ pageLast.event = "submitGuess"
    /\ heroContainer # [empty |-> TRUE]
    /\ slideIndex = 3
    /\ console # << >>
    /\ formLast.event = "submit"

\* s has a character that is not white space
HasNonSpace(s) == \E i \in 1 .. Len(s) : s[i] \notin WhiteSpace

\* n is s without the white space at its two ends
IsTrimOf(n, s) ==
    /\ n = << >> \/ (n[1] \notin WhiteSpace /\ n[Len(n)] \notin WhiteSpace)
    /\ \E before \in 0 .. Len(s) :
          /\ before + Len(n) <= Len(s)
          /\ \A i \in 1 .. Len(s) :
                IF i <= before \/ i > before + Len(n)
                THEN s[i] \in WhiteSpace
                ELSE s[i] = n[i - before]

\* s holds a run without white space made of at least one character, '@', at
\* least one character, '.', at least one character
LooksLikeEmail(s) ==
    \E i, j \in 1 .. Len(s) :
        /\ s[i] = "@"
        /\ s[j] = "."
        /\ i >= 2
        /\ j >= i + 2
        /\ j < Len(s)
        /\ \A k \in (i - 1) .. (j + 1) : s[k] \notin WhiteSpace

\* C22: on every submit of the ninja form the default submission is prevented
\* and exactly one feedback message is set: the welcome exactly when trimmed
\* name and email are not empty, the password as typed has at least 8
\* characters and the email has the shape x@y.z; the 'fill in all fields'
\* message whenever a field is empty or the password short, whatever the
\* email; the 'invalid email' message otherwise.
C22_FormFeedback ==
    formLast.event = "submit" =>
        /\ formLast.defaultPrevented
        /\ LET filled == HasNonSpace(formName) /\ HasNonSpace(formEmail) /\ Len(formPassword) >= 8 IN
           /\ ~filled => formFeedback = FillInText
           /\ (filled /\ ~LooksLikeEmail(formEmail)) => formFeedback = InvalidEmailText
           /\ (filled /\ LooksLikeEmail(formEmail)) =>
                 /\ formFeedback.text = WelcomeText(<< >>).text
                 /\ IsTrimOf(formFeedback.name, formName)

\* Naruto is welcomed with an email and a name typed with spaces around them
\* and a password of eight spaces
C22_Witness ==
    /\ formLast.event = "submit"
    /\ formName = << " ", "N", "a", "r", "u", "t", "o", " " >>
    /\ formEmail = << " ", "a", "@", "b", ".", "c", " " >>
    /\ formPassword = << " ", " ", " ", " ", " ", " ", " ", " " >>
    /\ formFeedback = WelcomeText(<< "N", "a", "r", "u", "t", "o" >>)

\* C24: slideIndex is always within 0..4; each tick advances it by one modulo
\* 5 and shows slideshowImages[slideIndex], so that the first tick shows the
\* second image and five ticks come back to the same image; no other handler
\* changes slideIndex.
C24_SlideshowCycles ==
    /\ [](/\ slideIndex \in 0 .. 4
          /\ animeImage # "" => animeImage = slideshowImages[slideIndex + 1])
    /\ [][SlideshowTick =>
             /\ slideIndex' = IF slideIndex = 4 THEN 0 ELSE slideIndex + 1
             /\ animeImage' # ""]_vars
    /\ [][slideIndex' # slideIndex => SlideshowTick]_vars

\* the slideshow has come round to the first image while a game is running
C24_Witness ==
    /\ slideIndex = 0
    /\ animeImage = slideshowImages[1]
    /\ selectedCharacter # << >>
    /\ heroContainer # [empty |-> TRUE]

\* C23: after any showTab(tabId) call no element of class tab-content other
\* than the element with id tabId carries 'active', so at most one tab content
\* is active, and none when no element has the id tabId.
C23_OneActiveTab ==
    tabLast.event = "showTab" =>
        /\ \A id \in TabContentIds : id \in activeClass => id = tabLast.tabId
        /\ Cardinality(activeClass \cap TabContentIds) <= 1
        /\ (\A e \in Elements : e.id # tabLast.tabId) => activeClass \cap TabContentIds = { }

\* tab2 is the one active tab content, next to an active element that is not
\* a tab content
C23_Witness ==
    /\ tabLast = [event |-> "showTab", tabId |-> "tab2"]
    /\ activeClass = { "tab2", "summonBtn" }

\* C25: getItems returns a copy: it hands out the items of the storage in
\* insertion order in an array of its own, so that adding to, removing from
\* or reordering that array changes neither the storage nor what a later
\* getItems returns; an added item goes to the end, and a removal only takes
\* items away.
C25_GetItemsReturnsACopy ==
    /\ dsLast.op = "getItems" =>
          /\ dsHeld.array = dsLast.before
          /\ ~dsHeld.shared
          /\ dsData = dsLast.before
    /\ dsLast.op = "mutate" =>
          /\ dsLast.array = dsLast.before
          /\ dsData = dsLast.before
    /\ dsLast.op = "addItem" =>
          /\ Len(dsData) = Len(dsLast.before) + 1
          /\ dsData[Len(dsData)] = dsLast.item
          /\ \A i \in 1 .. Len(dsLast.before) : dsData[i] = dsLast.before[i]
    /\ dsLast.op = "removeItem" =>
          \E kept \in SUBSET (1 .. Len(dsLast.before)) :
              /\ Len(dsData) = Cardinality(kept)
              /\ \A i \in kept :
                    dsData[Cardinality({ j \in kept : j <= i })] = dsLast.before[i]

\* the caller reversed the array it got for the items 1, 23 and the storage
\* still holds 1, 23
C25_Witness ==
    /\ dsLast.op = "mutate"
    /\ dsLast.changed = << Num(23), Num(1) >>
    /\ dsData = << Num(1), Num(23) >>

\* the positions of data whose item is not x
OthersThan(data, x) == { i \in 1 .. Len(data) : data[i] # x }

\* C26: removeItem(x) removes every stored occurrence of x and keeps the
\* other items in their order; removing an item that is not stored changes
\* nothing, and removing x a second time changes nothing more.
C26_RemoveItemRemovesAll ==
    dsLast.op = "removeItem" =>
        LET x == dsLast.item
            kept == OthersThan(dsLast.before, x)
        IN /\ \A i \in 1 .. Len(dsData) : dsData[i] # x
           /\ Len(dsData) = Cardinality(kept)
           /\ \A i \in kept :
                 dsData[Cardinality({ j \in kept : j <= i })] = dsLast.before[i]
           /\ Without(dsData, x) = dsData

\* the caffeine level before the i-th call on the developer
LevelBefore(i) == IF i = 1 THEN 0 ELSE devTrace[i - 1].level

\* C27: whatever drinkCoffee() and code() calls are made on a Developer, the
\* caffeine level is never negative, and a code() call that takes the "needs
\* coffee first" branch leaves the level as it was; a coffee adds 2 in oop.ts
\* and 20 in the guide, and coding needs a level above 10 in oop.ts and
\* above 0 in the guide and costs 10.
C27_CaffeineNeverNegative ==
    devVersion \in { "oop", "guide" } =>
        LET coffee == IF devVersion = "oop" THEN 2 ELSE 20
            needed == IF devVersion = "oop" THEN 10 ELSE 0
        IN /\ caffeineLevel >= 0
           /\ caffeineLevel = LevelBefore(Len(devTrace) + 1)
           /\ \A i \in 1 .. Len(devTrace) :
                 /\ devTrace[i].level >= 0
                 /\ devTrace[i].branch = "drink" =>
                       devTrace[i].level = LevelBefore(i) + coffee
                 /\ devTrace[i].branch = "coding" =>
                       /\ LevelBefore(i) > needed
                       /\ devTrace[i].level = LevelBefore(i) - 10
                 /\ devTrace[i].branch = "needsCoffee" =>
                       /\ LevelBefore(i) <= needed
                       /\ devTrace[i].level = LevelBefore(i)

\* the developer of oop.ts drank one coffee, was refused by code() with a
\* level of 2 and kept that level
C27_Witness ==
    /\ devVersion = "oop"
    /\ \E i \in 1 .. Len(devTrace) :
          devTrace[i].branch = "needsCoffee" /\ devTrace[i].level = 2

\* the entries of the console that report a counted commit
PushedLogs == { i \in 1 .. Len(console) : console[i].log = "pushed" }

\* C28: the commits counter of a GitRepository starts at 0 and never goes
\* down; after any number of push calls it equals that number if the secret
\* token is not empty and is 0 if the token is the empty string; every push
\* authenticates first, so each counted commit is logged right after an
\* authentication and there are as many authentications as push calls.
C28_CommitsCountPushes ==
    /\ [](script = "gitRepository" =>
            /\ pushCalls = 0 => commits = 0
            /\ secretToken # << >> => commits = pushCalls
            /\ secretToken = << >> => commits = 0
            /\ Cardinality({ i \in 1 .. Len(console) : console[i] = AuthenticatingLog })
                  = pushCalls
            /\ Cardinality(PushedLogs) = commits
            /\ \A i \in PushedLogs :
                  /\ i > 1
                  /\ console[i - 1] = AuthenticatingLog
                  /\ console[i].total = Cardinality({ j \in PushedLogs : j <= i }))
    /\ [][commits' >= commits]_vars

\* a repository with the empty token was pushed to twice: it authenticated
\* twice and counted nothing
C28_Witness ==
    /\ script = "gitRepository"
    /\ pushCalls = 2
    /\ secretToken = << >>
    /\ commits = 0
    /\ Len(console) = 2

\* C29: the radius of every Circle is positive in every reachable state,
\* directly after construction with any argument and after any sequence of
\* successful or failed radius assignments, so that area and circumference
\* are always computed from a positive radius.
C29_RadiusAlwaysPositive ==
    circlePc = "made" =>
        /\ circleRadius > 0
        /\ circleLast.op = "area" => circleLast.result.timesPi > 0
        /\ circleLast.op = "circumference" => circleLast.result.timesPi > 0

\* C30: the users handed to the then-handler of processUsers all have active
\* true, so the reduce of the usage example puts every one of them into
\* activeUsers, inactiveUsers is empty, and the count logged is the number of
\* users processUsers resolved to.
C30_ThenHandlerSeesOnlyActiveUsers ==
    /\ puPc \in { "done", "handled" } =>
          \A i \in 1 .. Len(puResult.value) :
              /\ puResult.value[i] # Null
              /\ puResult.value[i].active = TRUE
    /\ puPc = "handled" =>
          /\ activeUsers = puResult.value
          /\ inactiveUsers = << >>
          /\ console[Len(console)] =
                [log |-> "Found active users", count |-> Len(puResult.value)]

\* of two users fetched one was inactive, and the handler found one active
\* user
C30_Witness ==
    /\ puPc = "handled"
    /\ Len(puIds) = 2
    /\ \E k \in 1 .. 2 :
          /\ IsFulfilled(dpCalls[k].result)
          /\ dpCalls[k].result.value # Null
          /\ ~dpCalls[k].result.value.active
    /\ Len(activeUsers) = 1
    /\ console[Len(console)].count = 1

====
